---- MODULE Spec2Model ----
(***************************************************************************)
(* State-machine model of the MantraAI session and history lifecycle:      *)
(*   - ChatPageWithHistory (history-enabled chat page) with the history    *)
(*     store it writes through to                  -> specification SpecHist*)
(*   - ChatPage (streaming chat page) with the reset-with-undo controller   *)
(*                                                 -> specification SpecChat*)
(* Text is modelled as a sequence of lexical tokens:                        *)
(*   "CONF" = the literal "Confidence:", "ASK" = the literal "Ask-Me-Back:",*)
(*   "High"/"Medium"/"Low" = a level word, "SP" = a blank, "NL" = a line    *)
(*   break, anything else = a word of ordinary text.                        *)
(***************************************************************************)
EXTENDS Integers, Sequences, FiniteSets, TLC

\* ------------------------------------------------------------------ bounds
\* session ids one run may generate (the ids are 1..MaxSessions)
MaxSessions == 2
\* completion requests one run may dispatch
MaxSends == 1
\* saves, title jobs and loads that may be in flight at once, each
MaxInFlight == 1

\* ------------------------------------------------------------- text values
Min(a, b) == IF a < b THEN a ELSE b

IsSpace(t) == t \in {"SP", "NL"}

Levels == {"High", "Medium", "Low"}

\* String.prototype.trim on a token sequence
RECURSIVE TrimLeft(_)
TrimLeft(s) == IF s # <<>> /\ IsSpace(Head(s)) THEN TrimLeft(Tail(s)) ELSE s

RECURSIVE TrimRight(_)
TrimRight(s) ==
    IF s # <<>> /\ IsSpace(s[Len(s)]) THEN TrimRight(SubSeq(s, 1, Len(s) - 1)) ELSE s

Trim(s) == TrimRight(TrimLeft(s))

\* an optional value: undefined, or a defined text
Undefined == [defined |-> FALSE, v |-> <<>>]

Some(x) == [defined |-> TRUE, v |-> x]

\* String.prototype.toLowerCase on a level word
ToLowerCase(t) ==
    CASE t = "High" -> "high" [] t = "Medium" -> "medium" [] t = "Low" -> "low"
      [] OTHER -> t

\* first index >= i of s that holds no whitespace (Len(s)+1 when there is none): \s*
RECURSIVE SkipSpaces(_, _)
SkipSpaces(s, i) == IF i <= Len(s) /\ IsSpace(s[i]) THEN SkipSpaces(s, i + 1) ELSE i

\* index of the line break ending the line of position i (Len(s)+1 on the last line): .*$
RECURSIVE EndOfLine(_, _)
EndOfLine(s, i) == IF i <= Len(s) /\ s[i] # "NL" THEN EndOfLine(s, i + 1) ELSE i

\* positions where /Confidence:\s*(High|Medium|Low)/i matches
ConfidenceMatches(s) ==
    {i \in 1..Len(s) : /\ s[i] = "CONF"
                       /\ SkipSpaces(s, i + 1) <= Len(s)
                       /\ s[SkipSpaces(s, i + 1)] \in Levels}

\* positions where /Ask-Me-Back:\s*(.+)/i matches: after the marker, blanks and
\* line breaks, then at least one character that is no line break
AskMatches(s) ==
    {i \in 1..Len(s) : /\ s[i] = "ASK"
                       /\ \E k \in (i + 1)..Len(s) :
                            /\ s[k] # "NL"
                            /\ \A m \in (i + 1)..(k - 1) : IsSpace(s[m])}

SetMin(S) == CHOOSE x \in S : \A y \in S : x <= y

\* the capture group (.+) of the first Ask-Me-Back match
AskGroup(s) ==
    LET i == SetMin(AskMatches(s))
        k == SkipSpaces(s, i + 1)
    IN  IF k <= Len(s) THEN SubSeq(s, k, EndOfLine(s, k) - 1) ELSE <<"SP">>

\* text.replace(/<marker>.*$/im, ''): the first marker and the rest of its line
RemoveMarkerLine(s, marker) ==
    LET at == {i \in 1..Len(s) : s[i] = marker}
    IN  IF at = {} THEN s
        ELSE LET i == SetMin(at)
             IN  SubSeq(s, 1, i - 1) \o SubSeq(s, EndOfLine(s, i), Len(s))

parseAIResponse(text) ==
    [content |-> Trim(RemoveMarkerLine(RemoveMarkerLine(text, "CONF"), "ASK")),
     confidence |->
        IF ConfidenceMatches(text) = {} THEN "undefined"
        ELSE ToLowerCase(text[SkipSpaces(text, SetMin(ConfidenceMatches(text)) + 1)]),
     askBackQuestion |->
        IF AskMatches(text) = {} THEN Undefined ELSE Some(Trim(AskGroup(text)))]

\* generateTitle(text, maxWords): the first maxWords words of the text
generateTitle(text, maxWords) == SubSeq(text, 1, Min(maxWords, Len(text)))

\* the word limit handleSend's title job passes to generateTitle
TitleMaxWords == 7

NewChatTitle == <<"New", "Chat">>

UntitledTitle == <<"Untitled", "Chat">>

\* ------------------------------------------------------------------- state
VARIABLES
    user,               \* useUser(): TRUE once a user is signed in
    messages,           \* useState<Message[]>: the transcript
    input,              \* useState(''): the input box
    loading,            \* useState(false): a completion request is outstanding
    currentSessionId,   \* ChatPageWithHistory: the active session id (0 = none)
    currentTitle,       \* ChatPageWithHistory: the title shown
    hasGeneratedTitle,  \* ChatPageWithHistory: the title one-shot flag (useRef)
    sessionStore,       \* sessionStorage 'history-session-id' (0 = absent)
    nextId,             \* the next id the id generator yields
    history,            \* persistence store: session id -> history record
    requests,           \* completion requests in flight
    saves,              \* saveHistory calls in flight (not awaited by a handler)
    titleJobs,          \* generateTitle calls in flight
    loads,              \* loadCurrentSession calls in flight
    handler,            \* the UI handler suspended at an await, if any
    nsent,              \* completion requests dispatched so far
    titleCalls,         \* generateTitle invocations since the session became active
    alerts,             \* failures surfaced to the user (alert())
    deletedSessions,    \* sessions whose record a successful Delete All Chats removed
    heap,               \* ChatPage: the Message objects, by identity (1, 2, ...)
    streams,            \* ChatPage: handleSend calls past their dispatch
    timers,             \* ChatPage: auto-send timers set by handleVoiceTranscript
    memory,             \* user_memory rows of the user, oldest first
    memLoads,           \* ChatPage: loadUserMemory calls in flight
    conversations,      \* rows written by saveConversation
    resetState,         \* useResetWithUndo: the controller's current value
    snapshot,           \* useResetWithUndo: snapshotBeforeReset
    showUndo,           \* useResetWithUndo: the undo window is open
    priorState,         \* the controller's value just before the last reset()
    gestures,           \* the gestures of the user that a bound limits
    sessionIdRef,       \* ChatPage: sessionIdRef.current
    crashed,            \* a state updater threw while rendering: the page is gone
    formData,           \* CareerPage: the form
    roadmap,            \* CareerPage: the roadmap shown ("" = none)
    error,              \* CareerPage: the error banner ("" = none)
    showResetMenu,      \* CareerPage: the reset menu is open
    now,                \* the wall clock, in ms
    undoDeadline,       \* useResetWithUndo: the time the undo window closes by itself
    apiRequest,         \* API routes: the request being handled
    apiResponse,        \* API routes: the response sent for it
    completionCalls,    \* API routes: calls made to the completion client
    historyList,        \* ProfileHistory: the history state, the items listed
    selectedItems,      \* ProfileHistory: the session ids selected
    selectAll,          \* ProfileHistory: the select-all box
    filterModule,       \* ProfileHistory: the module filter ("all" or a module)
    moduleOf,           \* history store: the module_type of each session's record
    draftPage,          \* draft store: the page that owns the draft key
    draftValue,         \* draft store: the value the page hands to useAutoSave
    draft,              \* draft store: the DraftRecord persisted under the key
    draftTimer,         \* draft store: the pending debounce timer
    draftWrites,        \* draft store: persisted writes made so far
    last                \* the handler or callback step taken last

vars == <<user, messages, input, loading, currentSessionId, currentTitle,
          hasGeneratedTitle, sessionStore, nextId, history, requests, saves,
          titleJobs, loads, handler, nsent, titleCalls, alerts, deletedSessions,
          heap, streams, timers, memory, memLoads, conversations, resetState,
          snapshot, showUndo, priorState, gestures, sessionIdRef, crashed, formData,
          roadmap, error, showResetMenu, now, undoDeadline, apiRequest, apiResponse,
          completionCalls, historyList, selectedItems, selectAll, filterModule,
          moduleOf, draftPage, draftValue, draft, draftTimer, draftWrites, last>>

\* the state only the streaming ChatPage uses
chatOnly == <<heap, streams, timers, memory, memLoads, conversations, resetState,
              snapshot, showUndo, priorState, gestures, sessionIdRef, crashed>>

\* the state only the API routes use
apiOnly == <<apiRequest, apiResponse, completionCalls>>

\* the state only ProfileHistory uses
profileOnly == <<historyList, selectedItems, selectAll, filterModule, moduleOf>>

\* the state only the draft store uses
draftOnly == <<draftPage, draftValue, draft, draftTimer, draftWrites>>

\* the state of the API routes, of ProfileHistory and of the draft store, which
\* no action of the chat pages and the career page touches
outsidePages == <<apiOnly, profileOnly, draftOnly>>

NoDraft == [present |-> FALSE, value |-> <<>>]

NoTimer == [pending |-> FALSE, value |-> <<>>, due |-> 0]

\* no request has reached a route
ApiAtStart ==
    /\ apiRequest = [route |-> "none"]
    /\ apiResponse = [status |-> 0]
    /\ completionCalls = 0

\* the useState initial values of ProfileHistory
ProfileAtMount ==
    /\ historyList = {}
    /\ selectedItems = {}
    /\ selectAll = FALSE
    /\ filterModule = "all"
    /\ moduleOf = <<>>

\* no page with a draft is open
DraftAtStart ==
    /\ draftPage = "none"
    /\ draftValue = <<>>
    /\ draft = NoDraft
    /\ draftTimer = NoTimer
    /\ draftWrites = 0

OutsidePagesAtStart ==
    /\ ApiAtStart
    /\ ProfileAtMount
    /\ DraftAtStart

\* the state only CareerPage uses
careerOnly == <<formData, roadmap, error, showResetMenu, now, undoDeadline>>

\* the initial value of formData, and the initialState of the page's reset controller
EmptyForm == [currentEducation |-> "", interests |-> "", strengths |-> "", goals |-> ""]

\* the useState initial values of CareerPage
CareerAtMount ==
    /\ formData = EmptyForm
    /\ roadmap = "" /\ error = "" /\ showResetMenu = FALSE
    /\ now = 0 /\ undoDeadline = 0

\* the state only ChatPageWithHistory uses
histOnly == <<currentSessionId, currentTitle, hasGeneratedTitle, history, saves,
              titleJobs, loads, handler, titleCalls, alerts, deletedSessions>>

SessionIds == 1..MaxSessions

\* no history record for a session id; rows counts the rows the store holds for
\* the (user, session) pair
Absent == [present |-> FALSE, messages |-> <<>>, title |-> Undefined, rows |-> 0]

Record(msgs, title) == [present |-> TRUE, messages |-> msgs, title |-> title, rows |-> 1]

\* no handler is suspended
Idle == [op |-> "idle", save |-> Absent, sid |-> 0]

\* texts the user may type: a question, and a whitespace-only text
InputTexts == {<<"q">>, <<"SP">>}

\* reply texts the completion service may return
ResponseTexts == {<<"w", "NL", "CONF", "SP", "High", "NL", "ASK", "SP", "w">>}

\* a Message; data names the structured payload that accompanies it
Message(role, type, content, confidence, askBack, data) ==
    [role |-> role, type |-> type, content |-> content, confidence |-> confidence,
     askBackQuestion |-> askBack, data |-> data]

UserMessage(text) == Message("user", "undefined", text, "undefined", Undefined, "none")

\* the synthetic reply of a catch block: "Sorry, I encountered an error: ..."
ErrorMessage == Message("assistant", "normal", <<"Sorry">>, "undefined", Undefined, "none")

\* the reply handle2MinConcept appends when it has no topic
NoTopicMessage ==
    Message("assistant", "normal", <<"Please">>, "undefined", Undefined, "none")

ConceptMessage == Message("assistant", "concept", <<>>, "undefined", Undefined, "concept")

WeaknessMessage ==
    Message("assistant", "weakness", <<>>, "undefined", Undefined, "weakness")

\* the assistant message handleSend of ChatPageWithHistory builds from a reply
ParsedMessage(text) ==
    LET parsed == parseAIResponse(text)
    IN  Message("assistant", "normal", parsed.content, parsed.confidence,
                parsed.askBackQuestion, "none")

\* ------------------------------------------- history store (lib/utils/history)
\* saveHistory: upsert of the record of a session; a title that is not given
\* leaves the stored title as it is
RowsAfterInsert(rec) == rec.rows + 1

\* the rows of a pair after a save: an existing row is updated, a missing one inserted
RowsAfterSave(rec) == IF rec.present THEN rec.rows ELSE 1

Upsert(h, sid, msgs, title) ==
    [h EXCEPT ![sid] =
        [Record(msgs, IF title.defined \/ ~h[sid].present THEN title ELSE h[sid].title)
            EXCEPT !.rows = RowsAfterSave(h[sid])]]

\* getHistoryBySession
loadBySession(h, sid) == h[sid]

\* deleteAllHistoryByModule(user, 'chat') that reports success
DeleteAll(h) == [sid \in SessionIds |-> Absent]

\* the outcomes of a deleteAllHistoryByModule that reports failure: some of the
\* records may be gone, not all of them
PartialDeletes(h) ==
    LET present == {sid \in SessionIds : h[sid].present}
    IN  {[sid \in SessionIds |-> IF sid \in gone THEN Absent ELSE h[sid]] :
            gone \in {g \in SUBSET present : g # present \/ present = {}}}

\* ------------------------------------------- ChatPageWithHistory: the effects
\* the title of a save: saveCurrentSession passes none while the title is the default
SaveTitle(t) == IF t # NewChatTitle THEN Some(t) ELSE Undefined

SaveOf(sid, msgs, title) == [sid |-> sid, messages |-> msgs, title |-> title]

HasUserMessage(m) == \E i \in 1..Len(m) : m[i].role = "user"

\* messages.find(m => m.role === 'user')
FirstUserMessage(m) == m[SetMin({i \in 1..Len(m) : m[i].role = "user"})]

\* the guard of the title effect, for a render with transcript m and one-shot flag f
TitleEffectFires(m, f) == Len(m) >= 2 /\ ~f /\ user

SaveEffectAlways(m) == user

SaveEffectFromSecond(m) == Len(m) > 1 /\ user

\* the guard of the save effect
SaveEffectFires(m) == Len(m) > 0 /\ user

\* The effects of the render that follows a change of the transcript to m, with
\* session id sid, title t and one-shot flag f as the handler left them, and sv the
\* saves in flight: the title effect (flag, autoGenerateTitle up to its await) and
\* the save effect (saveCurrentSession up to its await).
MessagesEffects(m, sid, t, f, sv) ==
    /\ hasGeneratedTitle' = (f \/ TitleEffectFires(m, f))
    /\ titleJobs' = IF TitleEffectFires(m, f) /\ HasUserMessage(m)
                    THEN titleJobs \cup {[sid |-> sid, messages |-> m]}
                    ELSE titleJobs
    /\ titleCalls' = IF TitleEffectFires(m, f) /\ HasUserMessage(m)
                     THEN titleCalls + 1
                     ELSE titleCalls
    /\ saves' = IF SaveEffectFires(m) THEN sv \cup {SaveOf(sid, m, SaveTitle(t))} ELSE sv
    /\ Cardinality(saves') <= MaxInFlight /\ Cardinality(titleJobs') <= MaxInFlight

\* the session effect: loadCurrentSession up to its await
\* sel is the session whose selection started the load (0: none)
LoadOf(sid) == [sid |-> sid, phase |-> "query", result |-> Absent, sel |-> 0]

SessionEffect(u, sid) == IF u THEN loads \cup {LoadOf(sid)} ELSE loads

HistInit ==
    /\ user = FALSE
    /\ messages = <<>>
    /\ input = <<>>
    /\ loading = FALSE
    /\ currentSessionId = 1
    /\ currentTitle = NewChatTitle
    /\ hasGeneratedTitle = FALSE
    /\ sessionStore = 1
    /\ nextId = 2
    /\ history = [sid \in SessionIds |-> Absent]
    /\ requests = {}
    /\ saves = {}
    /\ titleJobs = {}
    /\ loads = {}
    /\ handler = Idle
    /\ nsent = 0
    /\ titleCalls = 0
    /\ alerts = 0
    /\ deletedSessions = {}
    /\ heap = <<>> /\ streams = {} /\ timers = {} /\ memory = <<>> /\ memLoads = {}
    /\ conversations = <<>>
    /\ resetState = [input |-> <<>>, messages |-> <<>>]
    /\ snapshot = [defined |-> FALSE, input |-> <<>>, messages |-> <<>>]
    /\ priorState = [input |-> <<>>, messages |-> <<>>]
    /\ gestures = 0
    /\ showUndo = FALSE /\ sessionIdRef = 0 /\ crashed = FALSE
    /\ CareerAtMount
    /\ OutsidePagesAtStart
    /\ last = "mount"

\* the user context resolves: the session effect runs for the signed-in user
UserLoaded ==
    /\ ~user
    /\ user' = TRUE
    /\ loads' = SessionEffect(TRUE, currentSessionId)
    /\ Cardinality(loads') <= MaxInFlight
    /\ last' = "UserLoaded"
    /\ UNCHANGED <<messages, input, loading, currentSessionId, currentTitle,
                   hasGeneratedTitle, sessionStore, nextId, history, requests, saves,
                   titleJobs, handler, nsent, titleCalls, alerts, deletedSessions, chatOnly, careerOnly, outsidePages>>

\* the user edits the input box
TypeInput(text) ==
    /\ input # text
    /\ input' = text
    /\ last' = "TypeInput"
    /\ UNCHANGED <<user, messages, loading, currentSessionId, currentTitle,
                   hasGeneratedTitle, sessionStore, nextId, history, requests, saves,
                   titleJobs, loads, handler, nsent, titleCalls, alerts, deletedSessions, chatOnly, careerOnly, outsidePages>>

\* a completion request in flight; sid is the session that was active at dispatch
RequestOf(kind, sid, n) == [kind |-> kind, sid |-> sid, n |-> n]

\* handleSend up to its fetch
HistSend ==
    /\ Trim(input) # <<>> /\ ~loading
    /\ nsent < MaxSends
    /\ messages' = Append(messages, UserMessage(input))
    /\ input' = <<>>
    /\ loading' = TRUE
    /\ requests' = requests \cup {RequestOf("send", currentSessionId, nsent + 1)}
    /\ nsent' = nsent + 1
    /\ MessagesEffects(messages', currentSessionId, currentTitle, hasGeneratedTitle, saves)
    /\ last' = "Send"
    /\ UNCHANGED <<user, currentSessionId, currentTitle, sessionStore, nextId, history,
                   loads, handler, alerts, deletedSessions, chatOnly, careerOnly, outsidePages>>

\* handle2MinConcept with nothing to explain: the hint is appended
Hist2MinConceptNoTopic ==
    /\ ~loading
    /\ Trim(input) = <<>> /\ messages = <<>>
    /\ messages' = Append(messages, NoTopicMessage)
    /\ MessagesEffects(messages', currentSessionId, currentTitle, hasGeneratedTitle, saves)
    /\ last' = "2MinConceptNoTopic"
    /\ UNCHANGED <<user, input, loading, currentSessionId, currentTitle, sessionStore,
                   nextId, history, requests, loads, handler, nsent, alerts, deletedSessions, chatOnly, careerOnly, outsidePages>>

\* handle2MinConcept up to its fetch
Hist2MinConcept ==
    /\ ~loading
    /\ Trim(input) # <<>> \/ messages # <<>>
    /\ nsent < MaxSends
    /\ loading' = TRUE
    /\ requests' = requests \cup {RequestOf("concept", currentSessionId, nsent + 1)}
    /\ nsent' = nsent + 1
    /\ last' = "2MinConcept"
    /\ UNCHANGED <<user, messages, input, currentSessionId, currentTitle,
                   hasGeneratedTitle, sessionStore, nextId, history, saves, titleJobs,
                   loads, handler, titleCalls, alerts, deletedSessions, chatOnly, careerOnly, outsidePages>>

\* handleWeaknessAnalysis up to its fetch
HistWeaknessAnalysis ==
    /\ ~loading /\ Len(messages) # 0
    /\ nsent < MaxSends
    /\ loading' = TRUE
    /\ requests' = requests \cup {RequestOf("weakness", currentSessionId, nsent + 1)}
    /\ nsent' = nsent + 1
    /\ last' = "WeaknessAnalysis"
    /\ UNCHANGED <<user, messages, input, currentSessionId, currentTitle,
                   hasGeneratedTitle, sessionStore, nextId, history, saves, titleJobs,
                   loads, handler, titleCalls, alerts, deletedSessions, chatOnly, careerOnly, outsidePages>>

\* the message a handler appends when its request r has succeeded with reply text
ReplyMessage(r, text) ==
    CASE r.kind = "send" -> ParsedMessage(text)
      [] r.kind = "concept" -> ConceptMessage
      [] OTHER -> WeaknessMessage

HistReplaceResult(prev, r, msg) == <<msg>>

\* what a handler does with the transcript when the result of its request r arrives
HistAppendResult(prev, r, msg) == Append(prev, msg)

\* the rest of handleSend / handle2MinConcept / handleWeaknessAnalysis: the reply
\* (or the error) of request r arrives
HistArrive(r, msg) ==
    /\ requests' = requests \ {r}
    /\ messages' = HistAppendResult(messages, r, msg)
    /\ loading' = FALSE
    /\ MessagesEffects(messages', currentSessionId, currentTitle, hasGeneratedTitle, saves)
    /\ last' = IF msg = ErrorMessage THEN "ArriveError" ELSE "Arrive"
    /\ UNCHANGED <<user, input, currentSessionId, currentTitle, sessionStore, nextId,
                   history, loads, handler, nsent, alerts, deletedSessions, chatOnly, careerOnly, outsidePages>>

HistResponse ==
    \E r \in requests :
        \/ \E text \in ResponseTexts : HistArrive(r, ReplyMessage(r, text))
        \/ HistArrive(r, ErrorMessage)

\* the id generator: `chat-${Date.now()}-${random}`, an id never used before
FreshId == nextId

\* The tail shared by handleNewChat, handleResetChat and handleDeleteAllChats: the
\* stored id is replaced by a fresh one, the page state is cleared, and the render
\* that follows runs the session effect for the new id (the transcript is empty,
\* so the title and save effects do nothing). h is the store as the handler's
\* awaited call left it.
StartFreshSession(op, h) ==
    /\ sessionStore' = FreshId
    /\ currentSessionId' = FreshId
    /\ nextId' = nextId + 1
    /\ messages' = <<>>
    /\ input' = <<>>
    /\ currentTitle' = NewChatTitle
    /\ hasGeneratedTitle' = FALSE
    /\ titleCalls' = 0
    /\ loads' = SessionEffect(user, FreshId)
    /\ Cardinality(loads') <= MaxInFlight
    /\ history' = h
    /\ handler' = Idle
    /\ deletedSessions' =
         IF op = "DeleteAllChats" /\ user
         THEN deletedSessions \cup {sid \in SessionIds : history[sid].present}
         ELSE deletedSessions
    /\ last' = op
    /\ UNCHANGED <<user, loading, requests, saves, titleJobs, nsent, alerts, chatOnly, careerOnly, outsidePages>>

\* a handler suspends at an await
Suspend(op, save) ==
    /\ handler' = [op |-> op, save |-> save, sid |-> currentSessionId]
    /\ last' = "await"
    /\ UNCHANGED <<user, messages, input, loading, currentSessionId, currentTitle,
                   hasGeneratedTitle, sessionStore, nextId, history, requests, saves,
                   titleJobs, loads, nsent, titleCalls, alerts, deletedSessions, chatOnly, careerOnly, outsidePages>>

SavesCurrentSessionNever == FALSE

\* saveCurrentSession called by a handler: whether it reaches saveHistory
SavesCurrentSession == user /\ Len(messages) # 0

\* handleNewChat / handleResetChat (confirmed) up to the await of saveCurrentSession,
\* or to the end when nothing is awaited
SaveThenRotate(op) ==
    /\ handler = Idle
    /\ nextId <= MaxSessions
    /\ IF Len(messages) > 0 /\ SavesCurrentSession
       THEN Suspend(op, Record(messages, SaveTitle(currentTitle)))
       ELSE StartFreshSession(op, history)

handleNewChat == SaveThenRotate("NewChat")

handleResetChat == SaveThenRotate("ResetChat")

\* the awaited saveHistory of handleNewChat / handleResetChat completes (an error is
\* caught and logged by saveCurrentSession) and the handler runs to its end
SaveThenRotateResume ==
    /\ handler.op \in {"NewChat", "ResetChat"}
    /\ \/ StartFreshSession(handler.op,
                            Upsert(history, handler.sid, handler.save.messages,
                                   handler.save.title))
       \/ StartFreshSession(handler.op, history)

\* handleDeleteAllChats (confirmed) up to the await of deleteAllHistoryByModule, or
\* to the end when no user is signed in
handleDeleteAllChats ==
    /\ handler = Idle
    /\ nextId <= MaxSessions
    /\ IF user THEN Suspend("DeleteAllChats", Absent)
               ELSE StartFreshSession("DeleteAllChats", history)

\* deleteAllHistoryByModule returns (its result is not looked at) and
\* handleDeleteAllChats runs to its end
DeleteAllChatsResume ==
    /\ handler.op = "DeleteAllChats"
    /\ \/ StartFreshSession("DeleteAllChats", DeleteAll(history))
       \/ \E h \in PartialDeletes(history) : StartFreshSession("DeleteAllChatsFailed", h)

\* a saveHistory in flight is carried out, or fails (the error is logged)
SaveComplete ==
    \E s \in saves :
        /\ saves' = saves \ {s}
        /\ \/ history' = Upsert(history, s.sid, s.messages, s.title)
           \/ history' = history
        /\ last' = "SaveComplete"
        /\ UNCHANGED <<user, messages, input, loading, currentSessionId, currentTitle,
                       hasGeneratedTitle, sessionStore, nextId, requests, titleJobs,
                       loads, handler, nsent, titleCalls, alerts, deletedSessions, chatOnly, careerOnly, outsidePages>>

\* the rest of autoGenerateTitle: generateTitle returns, the title is shown and the
\* record of the job's session is saved with it
TitleGenerated ==
    \E j \in titleJobs :
        /\ titleJobs' = titleJobs \ {j}
        /\ currentTitle' = generateTitle(FirstUserMessage(j.messages).content, TitleMaxWords)
        /\ saves' = saves \cup {SaveOf(j.sid, j.messages, Some(currentTitle'))}
        /\ Cardinality(saves') <= MaxInFlight
        /\ last' = "TitleGenerated"
        /\ UNCHANGED <<user, messages, input, loading, currentSessionId,
                       hasGeneratedTitle, sessionStore, nextId, history, requests,
                       loads, handler, nsent, titleCalls, alerts, deletedSessions, chatOnly, careerOnly, outsidePages>>

\* getHistoryBySession of a loadCurrentSession in flight reads the store
LoadQuery ==
    \E l \in loads :
        /\ l.phase = "query"
        /\ loads' = (loads \ {l}) \cup
                    {[l EXCEPT !.phase = "reply", !.result = loadBySession(history, l.sid)]}
        /\ last' = "LoadQuery"
        /\ UNCHANGED <<user, messages, input, loading, currentSessionId, currentTitle,
                       hasGeneratedTitle, sessionStore, nextId, history, requests, saves,
                       titleJobs, handler, nsent, titleCalls, alerts, deletedSessions, chatOnly, careerOnly, outsidePages>>

\* the title loadCurrentSession shows for a record: historyItem.title || 'Untitled Chat'
LoadedTitle(item) ==
    IF item.title.defined /\ item.title.v # <<>> THEN item.title.v ELSE UntitledTitle

\* !!historyItem.title
LoadedFlag(item) == item.title.defined /\ item.title.v # <<>>

\* the rest of loadCurrentSession: the record (or its absence) is put on the page
LoadResolve ==
    \E l \in loads :
        /\ l.phase = "reply"
        /\ loads' = loads \ {l}
        /\ IF l.result.present
           THEN /\ messages' = l.result.messages
                /\ currentTitle' = LoadedTitle(l.result)
                /\ MessagesEffects(messages', currentSessionId, currentTitle',
                                   LoadedFlag(l.result), saves)
           ELSE /\ messages' = <<>>
                /\ currentTitle' = NewChatTitle
                /\ MessagesEffects(messages', currentSessionId, currentTitle', FALSE, saves)
        /\ last' = "LoadResolve"
        /\ UNCHANGED <<user, input, loading, currentSessionId, sessionStore, nextId,
                       history, requests, handler, nsent, alerts, deletedSessions, chatOnly, careerOnly, outsidePages>>

\* getHistoryBySession throws: loadCurrentSession logs the error
LoadFail ==
    \E l \in loads :
        /\ loads' = loads \ {l}
        /\ last' = "LoadFail"
        /\ UNCHANGED <<user, messages, input, loading, currentSessionId, currentTitle,
                       hasGeneratedTitle, sessionStore, nextId, history, requests, saves,
                       titleJobs, handler, nsent, titleCalls, alerts, deletedSessions, chatOnly, careerOnly, outsidePages>>

HistNext ==
    \/ UserLoaded
    \/ \E text \in InputTexts : TypeInput(text)
    \/ HistSend
    \/ Hist2MinConceptNoTopic
    \/ Hist2MinConcept
    \/ HistWeaknessAnalysis
    \/ HistResponse
    \/ handleNewChat
    \/ handleResetChat
    \/ SaveThenRotateResume
    \/ handleDeleteAllChats
    \/ DeleteAllChatsResume
    \/ SaveComplete
    \/ TitleGenerated
    \/ LoadQuery
    \/ LoadResolve
    \/ LoadFail

SpecHist == HistInit /\ [][HistNext]_vars

\* ------------------------------------- ChatPageWithHistory: selecting a session
\* selections of a session one run may make
MaxSelects == 1

\* the state of ChatPage but for the count of gestures
chatButGestures == <<heap, streams, timers, memory, memLoads, conversations, resetState,
                     snapshot, showUndo, priorState, sessionIdRef, crashed>>

\* the sessions the sidebar lists: those with a record
ListedSessions == {sid \in SessionIds : history[sid].present}

\* a switch that makes sel the active id and leaves the stored pointer as it is
SwitchWithoutStoring(sel, title, stale, h) ==
    /\ sessionStore' = sessionStore
    /\ currentSessionId' = sel
    /\ currentTitle' = title
    /\ hasGeneratedTitle' = TRUE
    /\ titleCalls' = 0
    /\ loads' = loads \cup {[LoadOf(stale) EXCEPT !.sel = sel]}
                      \cup (IF sel # currentSessionId
                            THEN {[LoadOf(sel) EXCEPT !.sel = sel]}
                            ELSE {})
    /\ Cardinality(loads') <= MaxInFlight + 1
    /\ history' = h
    /\ handler' = Idle
    /\ last' = "SelectChat"
    /\ UNCHANGED <<user, messages, input, loading, nextId, requests, saves, titleJobs,
                   nsent, alerts, deletedSessions, chatButGestures, careerOnly, outsidePages>>

\* The part of handleSelectChat after its save: the stored pointer and the active
\* id become sel, the title is the one the sidebar passed, the one-shot flag is
\* set; loadCurrentSession is called from the closure of the render in which the
\* entry was clicked, so it queries the session that was active then (stale); the
\* render that follows runs the session effect if the active id has changed. h is
\* the store as the awaited save left it.
SwitchToSession(sel, title, stale, h) ==
    /\ sessionStore' = sel
    /\ currentSessionId' = sel
    /\ currentTitle' = title
    /\ hasGeneratedTitle' = TRUE
    /\ titleCalls' = 0
    /\ loads' = loads \cup {[LoadOf(stale) EXCEPT !.sel = sel]}
                      \cup (IF sel # currentSessionId
                            THEN {[LoadOf(sel) EXCEPT !.sel = sel]}
                            ELSE {})
    /\ Cardinality(loads') <= MaxInFlight + 1
    /\ history' = h
    /\ handler' = Idle
    /\ last' = "SelectChat"
    /\ UNCHANGED <<user, messages, input, loading, nextId, requests, saves, titleJobs,
                   nsent, alerts, deletedSessions, chatButGestures, careerOnly, outsidePages>>

\* handleSelectChat up to the await of saveCurrentSession, or to its end when the
\* transcript is empty
handleSelectChat ==
    \E sel \in ListedSessions :
        /\ handler = Idle
        /\ user
        /\ gestures < MaxSelects
        /\ gestures' = gestures + 1
        /\ IF Len(messages) > 0 /\ SavesCurrentSession
           THEN /\ handler' = [op |-> "SelectChat",
                               save |-> Record(messages, SaveTitle(currentTitle)),
                               sid |-> currentSessionId, sel |-> sel,
                               title |-> LoadedTitle(history[sel])]
                /\ last' = "await"
                /\ UNCHANGED <<user, messages, input, loading, currentSessionId,
                               currentTitle, hasGeneratedTitle, sessionStore, nextId,
                               history, requests, saves, titleJobs, loads, nsent,
                               titleCalls, alerts, deletedSessions, chatButGestures, careerOnly, outsidePages>>
           ELSE SwitchToSession(sel, LoadedTitle(history[sel]), currentSessionId, history)

\* the awaited saveHistory of handleSelectChat completes (an error is caught and
\* logged) and the handler runs to its end
SelectChatResume ==
    /\ handler.op = "SelectChat"
    /\ UNCHANGED gestures
    /\ \/ SwitchToSession(handler.sel, handler.title, handler.sid,
                          Upsert(history, handler.sid, handler.save.messages,
                                 handler.save.title))
       \/ SwitchToSession(handler.sel, handler.title, handler.sid, history)

\* the steps of the page with its sidebar, but for Reset Chat (New Chat with a
\* confirmation), Delete All Chats, the two analysis buttons and the loads that
\* fail (a load that fails leaves the page as it is): every load resolves
SelectNext ==
    \/ TypeInput(<<"q">>)
    \/ UserLoaded
    \/ HistSend
    \/ Hist2MinConceptNoTopic
    \/ HistResponse
    \/ handleNewChat
    \/ SaveThenRotateResume
    \/ handleSelectChat
    \/ SelectChatResume
    \/ SaveComplete
    \/ TitleGenerated
    \/ LoadQuery
    \/ LoadResolve

SpecSelect == HistInit /\ [][SelectNext]_vars

\* ------------------------------------------------------ ChatPage (streaming)
\* completion requests one run of the streaming page may dispatch
MaxChatSends == 2
\* gestures the user may make on the streaming page in one run
MaxGestures == 3
\* tokens one read of the response body may deliver
MaxChunk == 2
\* rows loadUserMemory asks for: .limit(10)
MemoryLimit == 10

\* the text the user may type into the streaming page
ChatInputTexts == {<<"q">>}

\* transcripts the voice control may deliver: a greeting, and a study question
VoiceTexts == {<<"hi">>, <<"why">>}

\* reply texts /api/chat may stream
StreamTexts == {<<"w", "NL", "CONF", "High">>}

GreetingPatterns == {"hi", "hello", "hey", "namaste", "kaise ho", "kya haal", "sup", "yo"}

CommandPatterns == {"explain in 2 minutes", "analyze", "bana de", "fix kar", "short me"}

StressPatterns == {"samajh nahi", "confused", "darr", "tension", "yaad nahi", "marks kam"}

\* patterns.some(pattern => lowerText.includes(pattern)), a token standing for the
\* pattern it spells
Includes(text, patterns) == \E i \in 1..Len(text) : text[i] \in patterns

analyzeIntent(text) ==
    IF Includes(text, GreetingPatterns) THEN "greeting"
    ELSE IF Includes(text, CommandPatterns) THEN "command"
    ELSE IF Includes(text, StressPatterns) THEN "stress"
    ELSE "study"

\* processVoice(text).text of useLanguage: the transcript as text
processVoice(text) == text

\* the empty assistant message handleSend appends before it reads the stream
StreamMessage == Message("assistant", "normal", <<>>, "undefined", Undefined, "none")

\* a message loadUserMemory builds from a user_memory row: role, content, timestamp
MemoryMessage(row) ==
    Message(row.role, "undefined", row.content, "undefined", Undefined, "none")

MemoryRow(role, content) == [role |-> role, content |-> content, interaction_type |-> "chat"]

\* rows of an earlier visit of the user
PriorMemory == <<MemoryRow("user", <<"q">>), MemoryRow("assistant", <<"w">>)>>

\* the newest MemoryLimit rows, those of type chat, oldest first
RECURSIVE SelectChat(_)
SelectChat(rows) ==
    IF rows = <<>> THEN <<>>
    ELSE IF Head(rows).interaction_type = "chat"
         THEN <<Head(rows)>> \o SelectChat(Tail(rows))
         ELSE SelectChat(Tail(rows))

RecentChatRows(mem) ==
    SelectChat(SubSeq(mem, Len(mem) - Min(MemoryLimit, Len(mem)) + 1, Len(mem)))

\* saveToMemory(role, content), u the user its closure holds
saveToMemory(mem, u, role, content) == IF u THEN Append(mem, MemoryRow(role, content)) ELSE mem

\* saveConversation(supabase, user.id, sessionIdRef.current, role, content, 'chat')
\* behind its guard, u the user the closure of the caller holds
saveConversation(conv, u, role, content) ==
    IF u THEN Append(conv, [sid |-> sessionIdRef, role |-> role, content |-> content])
    ELSE conv

\* the updater of the read loop: the last message takes the accumulated content if
\* it is a normal assistant message (msgs is not empty)
ChunkUpdate(hp, msgs, acc) ==
    LET lastMsg == msgs[Len(msgs)]
    IN  IF hp[lastMsg].role = "assistant" /\ hp[lastMsg].type = "normal"
        THEN [hp EXCEPT ![lastMsg].content = acc]
        ELSE hp

FinalUpdateAnyRole(hp, msgs, parsed) ==
    LET lastMsg == msgs[Len(msgs)]
    IN  [hp EXCEPT ![lastMsg].content = parsed.content,
                   ![lastMsg].confidence = parsed.confidence,
                   ![lastMsg].askBackQuestion = parsed.askBackQuestion]

\* the updater after the loop: the last message takes the parsed fields if it is an
\* assistant message (msgs is not empty)
FinalUpdate(hp, msgs, parsed) ==
    LET lastMsg == msgs[Len(msgs)]
    IN  IF hp[lastMsg].role = "assistant"
        THEN [hp EXCEPT ![lastMsg].content = parsed.content,
                        ![lastMsg].confidence = parsed.confidence,
                        ![lastMsg].askBackQuestion = parsed.askBackQuestion]
        ELSE hp

\* a handleSend call past its dispatch: n numbers it, user is the user its closure
\* holds, acc is accumulatedContent, rest the part of the body not read yet, msg the
\* message it appended when the stream began
StreamOf(n, u) == [n |-> n, user |-> u, phase |-> "fetch", acc |-> <<>>, rest |-> <<>>,
                   msg |-> 0]

Outstanding == {s \in streams : s.phase # "done"}

\* a step the user takes: a click, a key, a spoken phrase
Gesture == gestures < MaxGestures /\ gestures' = gestures + 1

NoSnapshot == [defined |-> FALSE, input |-> <<>>, messages |-> <<>>]

ChatInit ==
    /\ user = FALSE
    /\ messages = <<>>
    /\ input = <<>>
    /\ loading = FALSE
    /\ sessionIdRef = 1
    /\ sessionStore = 1
    /\ nextId = 2
    /\ heap = <<>> /\ streams = {} /\ timers = {} /\ memLoads = {}
    /\ memory \in {<<>>, PriorMemory}
    /\ conversations = <<>>
    /\ resetState = [input |-> <<>>, messages |-> <<>>]
    /\ snapshot = NoSnapshot
    /\ priorState = [input |-> <<>>, messages |-> <<>>]
    /\ gestures = 0
    /\ showUndo = FALSE
    /\ crashed = FALSE
    /\ CareerAtMount
    /\ OutsidePagesAtStart
    /\ requests = {}
    /\ nsent = 0
    /\ last = "mount"
    /\ currentSessionId = 0 /\ currentTitle = NewChatTitle /\ hasGeneratedTitle = FALSE
    /\ history = [sid \in SessionIds |-> Absent]
    /\ saves = {} /\ titleJobs = {} /\ loads = {} /\ handler = Idle
    /\ titleCalls = 0 /\ alerts = 0 /\ deletedSessions = {}

\* the user context resolves: the effect calls loadUserMemory, whose query reads
\* the rows
ChatUserLoaded ==
    /\ ~crashed /\ ~user
    /\ user' = TRUE
    /\ memLoads' = memLoads \cup {[rows |-> RecentChatRows(memory)]}
    /\ last' = "UserLoaded"
    /\ UNCHANGED gestures
    /\ UNCHANGED <<messages, input, loading, sessionStore, nextId, requests, nsent,
                   heap, streams, timers, memory, conversations, resetState, snapshot,
                   showUndo, priorState, sessionIdRef, crashed, histOnly, careerOnly, outsidePages>>

\* the ids of the messages appended to the heap hp for the rows
NewIds(hp, rows) == [i \in 1..Len(rows) |-> Len(hp) + i]

\* the rest of loadUserMemory: the rows replace the transcript, if there are any
LoadUserMemoryResolve ==
    \E l \in memLoads :
        /\ ~crashed
        /\ memLoads' = memLoads \ {l}
        /\ IF Len(l.rows) > 0
           THEN /\ heap' = heap \o [i \in 1..Len(l.rows) |-> MemoryMessage(l.rows[i])]
                /\ messages' = NewIds(heap, l.rows)
           ELSE UNCHANGED <<heap, messages>>
        /\ last' = "LoadUserMemory"
        /\ UNCHANGED gestures
        /\ UNCHANGED <<user, input, loading, sessionStore, nextId, requests, nsent,
                       streams, timers, memory, conversations, resetState, snapshot,
                       showUndo, priorState, sessionIdRef, crashed, histOnly, careerOnly, outsidePages>>

\* the input box (disabled while loading) or a hint button of the empty page
ChatTypeInput(text) ==
    /\ ~crashed
    /\ ~loading \/ messages = <<>>
    /\ input # text
    /\ input' = text
    /\ last' = "TypeInput"
    /\ Gesture
    /\ UNCHANGED <<user, messages, loading, sessionStore, nextId, requests, nsent,
                   heap, streams, timers, memory, memLoads, conversations, resetState,
                   snapshot, showUndo, priorState, sessionIdRef, crashed, histOnly, careerOnly, outsidePages>>

\* handleVoiceTranscript: the transcript fills the input; for a greeting or a
\* command a timer is set whose callback is the handleSend of the render that
\* handled the transcript, with that render's input, loading and user
handleVoiceTranscript(text) ==
    /\ ~crashed /\ ~loading
    /\ Trim(text) # <<>>
    /\ input' = processVoice(text)
    /\ timers' = IF analyzeIntent(text) \in {"greeting", "command"}
                 THEN timers \cup {[input |-> input, loading |-> loading, user |-> user]}
                 ELSE timers
    /\ Cardinality(timers') <= MaxInFlight
    /\ last' = "VoiceTranscript"
    /\ Gesture
    /\ UNCHANGED <<user, messages, loading, sessionStore, nextId, requests, nsent,
                   heap, streams, memory, memLoads, conversations, resetState, snapshot,
                   showUndo, priorState, sessionIdRef, crashed, histOnly, careerOnly, outsidePages>>

\* the guard of handleSend, for the input and loading its closure holds
SendAllowed(inp, ld) == Trim(inp) # <<>> /\ ~ld

\* handleSend up to its fetch, for the input and user its closure holds: the user
\* message is appended and stored, and the request is dispatched
SendWith(inp, u) ==
    /\ nsent < MaxChatSends
    /\ heap' = Append(heap, UserMessage(inp))
    /\ messages' = Append(messages, Len(heap) + 1)
    /\ input' = <<>>
    /\ loading' = TRUE
    /\ conversations' = saveConversation(conversations, u, "user", inp)
    /\ memory' = saveToMemory(memory, u, "user", inp)
    /\ streams' = streams \cup {StreamOf(nsent + 1, u)}
    /\ nsent' = nsent + 1
    /\ UNCHANGED <<user, sessionStore, nextId, requests, memLoads, resetState, snapshot,
                   showUndo, priorState, sessionIdRef, crashed, histOnly, careerOnly, outsidePages>>

\* the send button, or Enter in the input box
ChatSend ==
    /\ ~crashed
    /\ SendAllowed(input, loading)
    /\ SendWith(input, user)
    /\ last' = "Send"
    /\ Gesture
    /\ UNCHANGED timers

\* the auto-send timer fires: handleSend of the render that set it
AutoSend ==
    \E t \in timers :
        /\ ~crashed
        /\ timers' = timers \ {t}
        /\ last' = "AutoSend"
        /\ UNCHANGED gestures
        /\ IF SendAllowed(t.input, t.loading)
           THEN SendWith(t.input, t.user)
           ELSE UNCHANGED <<user, messages, input, loading, sessionStore, nextId,
                            requests, nsent, heap, streams, memory, memLoads,
                            conversations, resetState, snapshot, showUndo, priorState,
                            sessionIdRef, crashed, histOnly, careerOnly, outsidePages>>

\* a catch block: the error message is appended and loading ends
AppendError ==
    /\ heap' = Append(heap, ErrorMessage)
    /\ messages' = Append(messages, Len(heap) + 1)
    /\ loading' = FALSE

\* the fetch of a handleSend fails, or answers with an error status
FetchFail ==
    \E s \in streams :
        /\ ~crashed
        /\ s.phase = "fetch"
        /\ streams' = streams \ {s}
        /\ AppendError
        /\ last' = "FetchFail"
        /\ UNCHANGED gestures
        /\ UNCHANGED <<user, input, sessionStore, nextId, requests, nsent, timers,
                       memory, memLoads, conversations, resetState, snapshot, showUndo,
                       priorState, sessionIdRef, crashed, histOnly, careerOnly, outsidePages>>

\* the fetch answers with a body: the assistant message of the stream is appended
StreamOpen ==
    \E s \in streams, text \in StreamTexts :
        /\ ~crashed
        /\ s.phase = "fetch"
        /\ heap' = Append(heap, StreamMessage)
        /\ messages' = Append(messages, Len(heap) + 1)
        /\ streams' = (streams \ {s}) \cup
                      {[s EXCEPT !.phase = "stream", !.rest = text, !.msg = Len(heap) + 1]}
        /\ last' = "StreamOpen"
        /\ UNCHANGED gestures
        /\ UNCHANGED <<user, input, loading, sessionStore, nextId, requests, nsent,
                       timers, memory, memLoads, conversations, resetState, snapshot,
                       showUndo, priorState, sessionIdRef, crashed, histOnly, careerOnly, outsidePages>>

\* an updater reads the role of the last message of an empty transcript: the
\* TypeError is thrown while rendering and the error boundary replaces the page
Crash ==
    /\ crashed' = TRUE
    /\ UNCHANGED <<user, messages, input, loading, sessionStore, nextId, requests,
                   nsent, heap, timers, memory, memLoads, conversations, resetState,
                   snapshot, showUndo, priorState, sessionIdRef, histOnly, careerOnly, outsidePages>>

\* one read of the body delivers the next k tokens
StreamChunk ==
    \E s \in streams, k \in 1..MaxChunk :
        /\ ~crashed
        /\ s.phase = "stream"
        /\ k <= Len(s.rest)
        /\ streams' = (streams \ {s}) \cup
                      {[s EXCEPT !.acc = s.acc \o SubSeq(s.rest, 1, k),
                                 !.rest = SubSeq(s.rest, k + 1, Len(s.rest))]}
        /\ last' = "StreamChunk"
        /\ UNCHANGED gestures
        /\ IF messages = <<>>
           THEN Crash
           ELSE /\ heap' = ChunkUpdate(heap, messages, s.acc \o SubSeq(s.rest, 1, k))
                /\ UNCHANGED <<user, messages, input, loading, sessionStore, nextId,
                               requests, nsent, timers, memory, memLoads, conversations,
                               resetState, snapshot, showUndo, priorState, sessionIdRef,
                               crashed, histOnly, careerOnly, outsidePages>>

\* a read of the body fails: the catch block
StreamError ==
    \E s \in streams :
        /\ ~crashed
        /\ s.phase = "stream"
        /\ streams' = streams \ {s}
        /\ AppendError
        /\ last' = "StreamError"
        /\ UNCHANGED gestures
        /\ UNCHANGED <<user, input, sessionStore, nextId, requests, nsent, timers,
                       memory, memLoads, conversations, resetState, snapshot, showUndo,
                       priorState, sessionIdRef, crashed, histOnly, careerOnly, outsidePages>>

\* the read that reports the end of the body: the last pass of the loop, the final
\* parse and update, the reply stored, loading ended
StreamFinal ==
    \E s \in streams :
        /\ ~crashed
        /\ s.phase = "stream" /\ s.rest = <<>>
        /\ streams' = (streams \ {s}) \cup {[s EXCEPT !.phase = "done"]}
        /\ last' = "StreamFinal"
        /\ UNCHANGED gestures
        /\ IF messages = <<>>
           THEN Crash
           ELSE /\ heap' = FinalUpdate(ChunkUpdate(heap, messages, s.acc), messages,
                                       parseAIResponse(s.acc))
                /\ conversations' = saveConversation(conversations, s.user, "ai", s.acc)
                /\ memory' = saveToMemory(memory, s.user, "assistant", s.acc)
                /\ loading' = FALSE
                /\ UNCHANGED <<user, messages, input, sessionStore, nextId, requests,
                               nsent, timers, memLoads, resetState, snapshot, showUndo,
                               priorState, sessionIdRef, crashed, histOnly, careerOnly, outsidePages>>


\* a request of handle2MinConcept or handleWeaknessAnalysis of ChatPage, u the user
\* the closure of the handler holds
ChatRequestOf(kind, n, u) == [kind |-> kind, sid |-> 0, n |-> n, user |-> u]

\* handle2MinConcept with no topic: no input and no message
Chat2MinConceptNoTopic ==
    /\ ~crashed /\ ~loading
    /\ Trim(input) = <<>> /\ messages = <<>>
    /\ heap' = Append(heap, NoTopicMessage)
    /\ messages' = Append(messages, Len(heap) + 1)
    /\ last' = "2MinConceptNoTopic"
    /\ Gesture
    /\ UNCHANGED <<user, input, loading, sessionStore, nextId, requests, nsent, streams,
                   timers, memory, memLoads, conversations, resetState, snapshot,
                   showUndo, priorState, sessionIdRef, crashed, histOnly, careerOnly, outsidePages>>

\* a handler of ChatPage that dispatches a JSON request
ChatDispatch(kind) ==
    /\ nsent < MaxChatSends
    /\ loading' = TRUE
    /\ requests' = requests \cup {ChatRequestOf(kind, nsent + 1, user)}
    /\ nsent' = nsent + 1
    /\ UNCHANGED <<user, messages, input, sessionStore, nextId, heap, streams, timers,
                   memory, memLoads, conversations, resetState, snapshot, showUndo,
                   priorState, sessionIdRef, crashed, histOnly, careerOnly, outsidePages>>

\* handle2MinConcept up to its fetch
Chat2MinConcept ==
    /\ ~crashed /\ ~loading
    /\ Trim(input) # <<>> \/ messages # <<>>
    /\ ChatDispatch("concept")
    /\ last' = "2MinConcept"
    /\ Gesture

\* handleWeaknessAnalysis up to its fetch
ChatWeaknessAnalysis ==
    /\ ~crashed /\ ~loading
    /\ Len(messages) # 0
    /\ ChatDispatch("weakness")
    /\ last' = "WeaknessAnalysis"
    /\ Gesture

\* the text saveToMemory stores for a result: `2-Min Concept: ...`, `Weakness Analysis: ...`
ResultMemo(kind) == IF kind = "concept" THEN <<"2-Min Concept">> ELSE <<"Weakness Analysis">>

\* the rest of handle2MinConcept / handleWeaknessAnalysis: the result arrives, or
\* the error
ChatResponse ==
    \E r \in requests :
        /\ ~crashed
        /\ requests' = requests \ {r}
        /\ loading' = FALSE
        /\ last' = "Arrive"
        /\ UNCHANGED gestures
        /\ \/ /\ heap' = Append(heap, ReplyMessage(r, <<>>))
              /\ messages' = Append(messages, Len(heap) + 1)
              /\ memory' = saveToMemory(memory, r.user, "assistant", ResultMemo(r.kind))
           \/ /\ heap' = Append(heap, ErrorMessage)
              /\ messages' = Append(messages, Len(heap) + 1)
              /\ UNCHANGED memory
        /\ UNCHANGED <<user, input, sessionStore, nextId, nsent, streams, timers,
                       memLoads, conversations, resetState, snapshot, showUndo,
                       priorState, sessionIdRef, crashed, histOnly, careerOnly, outsidePages>>

OnResetInputOnly(state) ==
    /\ input' = state.input
    /\ messages' = messages

\* the onReset callback ChatPage hands to useResetWithUndo
OnReset(state) ==
    /\ input' = state.input
    /\ messages' = state.messages

\* reset(newValue) of useResetWithUndo: the current value becomes the snapshot, the
\* new value the current one, the undo window opens, onReset(newValue) is called
HookReset(newValue) ==
    /\ snapshot' = [defined |-> TRUE, input |-> resetState.input,
                    messages |-> resetState.messages]
    /\ priorState' = resetState
    /\ resetState' = newValue
    /\ showUndo' = TRUE
    /\ OnReset(newValue)

\* getOrCreateSessionId(); clearSessionId(); getOrCreateSessionId() of
\* lib/utils/conversations: the stored id is replaced by a fresh one
RotateSessionId ==
    /\ nextId <= MaxSessions
    /\ sessionStore' = FreshId
    /\ sessionIdRef' = FreshId
    /\ nextId' = nextId + 1

\* handleResetChat of ChatPage
ChatResetChat ==
    /\ ~crashed
    /\ HookReset([input |-> <<>>, messages |-> <<>>])
    /\ RotateSessionId
    /\ last' = "ResetChat"
    /\ Gesture
    /\ UNCHANGED <<user, loading, requests, nsent, heap, streams, timers, memory,
                   memLoads, conversations, crashed, histOnly, careerOnly, outsidePages>>

\* handleResetInput of ChatPage
ChatResetInput ==
    /\ ~crashed
    /\ HookReset([input |-> <<>>, messages |-> messages])
    /\ last' = "ResetInput"
    /\ Gesture
    /\ UNCHANGED <<user, loading, sessionStore, nextId, requests, nsent, heap, streams,
                   timers, memory, memLoads, conversations, sessionIdRef, crashed,
                   histOnly, careerOnly, outsidePages>>

\* handleNewChat of ChatPage
ChatNewChat ==
    /\ ~crashed
    /\ messages' = <<>>
    /\ input' = <<>>
    /\ RotateSessionId
    /\ last' = "NewChat"
    /\ Gesture
    /\ UNCHANGED <<user, loading, requests, nsent, heap, streams, timers, memory,
                   memLoads, conversations, resetState, snapshot, showUndo, priorState,
                   crashed, histOnly, careerOnly, outsidePages>>

\* undo() of useResetWithUndo, called from the toast while the window is open, or
\* called after the window closed
Undo ==
    /\ ~crashed
    /\ last' = "undo"
    /\ Gesture
    /\ IF showUndo
       THEN /\ resetState' = [input |-> snapshot.input, messages |-> snapshot.messages]
            /\ snapshot' = NoSnapshot
            /\ showUndo' = FALSE
            /\ OnReset([input |-> snapshot.input, messages |-> snapshot.messages])
       ELSE UNCHANGED <<resetState, snapshot, showUndo, input, messages>>
    /\ UNCHANGED <<user, loading, sessionStore, nextId, requests, nsent, heap, streams,
                   timers, memory, memLoads, conversations, priorState, sessionIdRef,
                   crashed, histOnly, careerOnly, outsidePages>>

\* the window closes without restoring: how is "dismiss" for dismiss() of the
\* toast, "expire" for the timeout of the window
CloseWindow(how) ==
    /\ ~crashed
    /\ showUndo
    /\ showUndo' = FALSE
    /\ snapshot' = NoSnapshot
    /\ last' = how
    /\ IF how = "dismiss" THEN Gesture ELSE UNCHANGED gestures
    /\ UNCHANGED <<user, messages, input, loading, sessionStore, nextId, requests,
                   nsent, heap, streams, timers, memory, memLoads, conversations,
                   resetState, priorState, sessionIdRef, crashed, histOnly, careerOnly, outsidePages>>

dismissUndo == CloseWindow("dismiss")

UndoExpires == CloseWindow("expire")

ChatNext ==
    \/ ChatUserLoaded
    \/ LoadUserMemoryResolve
    \/ \E text \in ChatInputTexts : ChatTypeInput(text)
    \/ \E text \in VoiceTexts : handleVoiceTranscript(text)
    \/ ChatSend
    \/ AutoSend
    \/ FetchFail
    \/ StreamOpen
    \/ StreamChunk
    \/ StreamError
    \/ StreamFinal
    \/ Chat2MinConceptNoTopic
    \/ Chat2MinConcept
    \/ ChatWeaknessAnalysis
    \/ ChatResponse
    \/ ChatResetChat
    \/ ChatResetInput
    \/ ChatNewChat
    \/ Undo
    \/ dismissUndo
    \/ UndoExpires

SpecChat == ChatInit /\ [][ChatNext]_vars

\* handleSend of ChatPage when the saveConversation it awaits rejects: the await is
\* before the try block, so the handler ends there with the user message shown,
\* the input cleared and loading set; the row may or may not have been written
SendSaveRejected ==
    /\ ~crashed
    /\ user
    /\ SendAllowed(input, loading)
    /\ heap' = Append(heap, UserMessage(input))
    /\ messages' = Append(messages, Len(heap) + 1)
    /\ input' = <<>>
    /\ loading' = TRUE
    /\ conversations' \in {conversations, saveConversation(conversations, user, "user", input)}
    /\ last' = "SendSaveRejected"
    /\ Gesture
    /\ UNCHANGED <<user, sessionStore, nextId, requests, nsent, streams, timers, memory,
                   memLoads, resetState, snapshot, showUndo, priorState, sessionIdRef,
                   crashed, histOnly, careerOnly, outsidePages>>

ChatRejectNext ==
    \/ ChatNext
    \/ SendSaveRejected

SpecChatReject == ChatInit /\ [][ChatRejectNext]_vars

\* ------------------------------------------------ claims: ChatPageWithHistory

\* C1: the result (reply or error) of a request that arrives after the active
\* session id has changed since its dispatch is discarded: the step that takes it
\* leaves the transcript of the now active session as it is.
C1_CrossSessionAppendGuard ==
    [][\A r \in requests :
          (r \notin requests' /\ r.sid # currentSessionId) => messages' = messages]_vars

\* C3: a chat session whose record a successful Delete All Chats removed has no
\* record in any later state: loadBySession returns absent for it.
C3_DeletedNeverResurrected ==
    \A sid \in deletedSessions : ~loadBySession(history, sid).present

\* C4 (Delete All Chats): when deleteAllHistoryByModule reports failure, the
\* transcript, the input and the session stay as they are and the failure is
\* surfaced.
C4_DeleteAllChatsFailureKeepsState ==
    [][last' = "DeleteAllChatsFailed" =>
          /\ messages' = messages
          /\ input' = input
          /\ currentSessionId' = currentSessionId
          /\ alerts' = alerts + 1]_vars

\* C5: generateTitle is invoked at most once between the moment a session becomes
\* active and the next rotation.
C5_TitleAtMostOnce == titleCalls <= 1

\* the step in which New Chat or (confirmed) Reset Chat is clicked
ClickNewOrReset ==
    /\ handler = Idle
    /\ handler'.op \in {"NewChat", "ResetChat"} \/ last' \in {"NewChat", "ResetChat"}

\* the click step issues a save of the transcript under the active session id,
\* awaits it and clears nothing yet
SaveIssuedAndAwaited ==
    /\ handler'.op \in {"NewChat", "ResetChat"}
    /\ handler'.sid = currentSessionId
    /\ handler'.save = Record(messages, SaveTitle(currentTitle))
    /\ messages' = messages /\ input' = input
    /\ currentSessionId' = currentSessionId /\ currentTitle' = currentTitle
    /\ hasGeneratedTitle' = hasGeneratedTitle

\* the state New Chat and Reset Chat end in
FreshSessionState ==
    /\ messages' = <<>> /\ input' = <<>>
    /\ currentTitle' = NewChatTitle
    /\ ~hasGeneratedTitle'
    /\ currentSessionId' # currentSessionId
    /\ currentSessionId' = nextId /\ nextId' > currentSessionId'
    /\ sessionStore' = currentSessionId'

ResetLabels == {"ResetChat", "ResetInput"}

\* C2: reset(B) records the controller's value A; undo() while the window is open
\* makes A the controller's value again, hands A to onReset (the page's input and
\* messages become those of A) and closes the window; dismiss() and the expiry
\* leave the value alone and close the window, undo() after that changes nothing,
\* and nothing but a reset or an undo in an open window changes the value.
C2_UndoRestoresPriorState ==
    [][/\ last' \in ResetLabels => priorState' = resetState /\ showUndo'
       /\ priorState' # priorState => last' \in ResetLabels
       /\ (last' = "undo" /\ showUndo) =>
              /\ resetState' = priorState
              /\ input' = priorState.input
              /\ messages' = priorState.messages
              /\ ~showUndo'
       /\ (last' = "undo" /\ ~showUndo) => UNCHANGED <<resetState, input, messages>>
       /\ last' \in {"dismiss", "expire"} => resetState' = resetState /\ ~showUndo'
       /\ resetState' # resetState =>
              last' \in ResetLabels \/ (last' = "undo" /\ showUndo)]_vars

\* Reset Input with a transcript, Reset Chat, then undo: the controller and the
\* page hold the value Reset Input left
C2_Witness ==
    /\ last = "undo" /\ ~showUndo /\ sessionIdRef = 2
    /\ priorState.messages # <<>>
    /\ resetState = priorState
    /\ messages = priorState.messages /\ input = priorState.input

\* C6: at most one completion request (send, 2-minute concept, weakness) is
\* outstanding at any time.
C6_AtMostOneOutstanding == Cardinality(Outstanding) + Cardinality(requests) <= 1

\* C7: a message changes only in a step of the stream that appended it, while that
\* stream is arriving.
C7_UpdatesOnlyOwnMessage ==
    [][\A id \in 1..Len(heap) :
          heap'[id] # heap[id] =>
              \E s \in streams : s.phase = "stream" /\ s.msg = id /\ s \notin streams']_vars

\* C8: once a streaming send has read its whole body, the message it appended holds
\* the content, confidence and follow-up question parsed from the whole text.
C8_StreamReassembly ==
    \A s \in streams :
        s.phase = "done" =>
            LET parsed == parseAIResponse(s.acc)
            IN  /\ heap[s.msg].content = parsed.content
                /\ heap[s.msg].confidence = parsed.confidence
                /\ heap[s.msg].askBackQuestion = parsed.askBackQuestion

\* ------------------------------------------ ChatPageWithHistory: page reload
\* reloads of the page one run may make
MaxReloads == 1

getOrCreateAlwaysNew(store) == FreshId

\* getOrCreateHistorySessionId: the stored id, or a fresh one if none is stored
getOrCreateHistorySessionId(store) == IF store # 0 THEN store ELSE FreshId

InitialSessionIdFresh == FreshId

\* the initial value of currentSessionId when the page mounts
InitialSessionId == getOrCreateHistorySessionId(sessionStore)

\* The page is reloaded (or left and opened again) in the same tab: the component
\* state starts over, the handlers, loads and requests of the old page are gone,
\* the user context has to resolve again; a save already sent may still reach the
\* store or not.
Reload ==
    /\ gestures < MaxReloads
    /\ gestures' = gestures + 1
    /\ user' = FALSE
    /\ messages' = <<>>
    /\ input' = <<>>
    /\ loading' = FALSE
    /\ currentSessionId' = InitialSessionId
    /\ sessionStore' = InitialSessionId
    /\ nextId' = IF sessionStore # 0 THEN nextId ELSE nextId + 1
    /\ currentTitle' = NewChatTitle
    /\ hasGeneratedTitle' = FALSE
    /\ titleCalls' = 0
    /\ requests' = {} /\ titleJobs' = {} /\ loads' = {}
    /\ handler' = Idle
    /\ saves' \in SUBSET saves
    /\ last' = "Reload"
    /\ UNCHANGED <<history, nsent, alerts, deletedSessions, chatButGestures, careerOnly, outsidePages>>

ReloadNext ==
    \/ HistNext
    \/ Reload

SpecReload == HistInit /\ [][ReloadNext]_vars

\* ---------------------------------------------------------------- CareerPage
\* The draft kept by useAutoSave lives in local storage only and is left out: no
\* handler below reads it.

\* ticks of the clock one run may make
MaxTicks == 3

\* timeout={10000} of the UndoToast, in ms
UndoTimeout == 10000

\* the clock advances in steps of half an undo window
TickMs == UndoTimeout \div 2

Fields == {"currentEducation", "interests", "strengths", "goals"}

\* what the user may put into a field
FieldValues ==
    [currentEducation |-> {"", "12th"}, interests |-> {"", "coding"},
     strengths |-> {"logic"}, goals |-> {""}]

\* the state CareerPage never touches
notCareer == <<outsidePages, priorState, messages, input, sessionStore, nextId, nsent,
               heap, streams, timers,
               conversations, sessionIdRef, crashed, currentSessionId, currentTitle,
               hasGeneratedTitle, history, saves, titleJobs, loads, handler,
               titleCalls, alerts, deletedSessions>>

notCareerButSends ==
    <<outsidePages, priorState, messages, input,
      sessionStore, nextId, heap, streams, timers, conversations,
      sessionIdRef, crashed, currentSessionId, currentTitle, hasGeneratedTitle, history,
      saves, titleJobs, loads, handler, titleCalls, alerts, deletedSessions>>

NoCareerSnapshot == [defined |-> FALSE, value |-> EmptyForm]

\* the rows handleSubmit inserts into user_memory
CareerGoalRow(form) == [role |-> "user", content |-> form, type |-> "career_goal"]

CareerRoadmapRow(text) == [role |-> "assistant", content |-> text, type |-> "career_roadmap"]

\* a goal the user stored in an earlier visit
PriorGoal == [currentEducation |-> "12th", interests |-> "coding", strengths |-> "logic",
              goals |-> ""]

RECURSIVE LatestGoal(_)
\* the query of loadUserGoal: the newest career_goal row, if there is one
LatestGoal(rows) ==
    IF rows = <<>> THEN [found |-> FALSE, content |-> EmptyForm]
    ELSE IF rows[Len(rows)].type = "career_goal"
         THEN [found |-> TRUE, content |-> rows[Len(rows)].content]
         ELSE LatestGoal(SubSeq(rows, 1, Len(rows) - 1))

CareerInit ==
    /\ user = FALSE
    /\ loading = FALSE
    /\ requests = {}
    /\ memLoads = {}
    /\ memory \in {<<>>, <<CareerGoalRow(PriorGoal)>>}
    /\ resetState = EmptyForm
    /\ snapshot = NoCareerSnapshot
    /\ priorState = EmptyForm
    /\ showUndo = FALSE
    /\ gestures = 0
    /\ CareerAtMount
    /\ OutsidePagesAtStart
    /\ last = "mount"
    /\ messages = <<>> /\ input = <<>> /\ sessionStore = 0 /\ nextId = 1 /\ nsent = 0
    /\ heap = <<>> /\ streams = {} /\ timers = {} /\ conversations = <<>>
    /\ sessionIdRef = 0 /\ crashed = FALSE
    /\ currentSessionId = 0 /\ currentTitle = NewChatTitle /\ hasGeneratedTitle = FALSE
    /\ history = [sid \in SessionIds |-> Absent]
    /\ saves = {} /\ titleJobs = {} /\ loads = {} /\ handler = Idle
    /\ titleCalls = 0 /\ alerts = 0 /\ deletedSessions = {}

\* the hook state and the clock, left alone
hookIdle == <<resetState, snapshot, showUndo, undoDeadline>>

\* the mount effect: getUser() resolves with a user, loadUserGoal starts and its
\* query reads the store
CareerUserLoaded ==
    /\ ~user
    /\ user' = TRUE
    /\ memLoads' = memLoads \cup {[phase |-> "reply", result |-> LatestGoal(memory)]}
    /\ last' = "UserLoaded"
    /\ UNCHANGED <<loading, requests, memory, gestures, formData, roadmap, error,
                   showResetMenu, now, hookIdle, notCareer>>

\* loadUserGoal resumes: a stored goal is merged into the form; a failed query is
\* logged and changes nothing
GoalResolve ==
    \E l \in memLoads :
        /\ l.phase = "reply"
        /\ memLoads' = memLoads \ {l}
        /\ \/ /\ formData' = IF l.result.found THEN l.result.content ELSE formData
              /\ last' = "GoalResolve"
           \/ /\ formData' = formData
              /\ last' = "GoalFailed"
        /\ UNCHANGED <<user, loading, requests, memory, gestures, roadmap, error,
                       showResetMenu, now, hookIdle, notCareer>>

SetFieldRenewing(f, v) ==
    /\ formData' = [formData EXCEPT ![f] = v]
    /\ undoDeadline' = IF showUndo THEN now + UndoTimeout ELSE undoDeadline
    /\ UNCHANGED <<resetState, snapshot, showUndo>>

\* onChange of a field of the form
SetField(f, v) ==
    /\ formData' = [formData EXCEPT ![f] = v]
    /\ UNCHANGED hookIdle

EditField ==
    \E f \in Fields : \E v \in FieldValues[f] :
        /\ v # formData[f]
        /\ SetField(f, v)
        /\ last' = "SetField"
        /\ UNCHANGED <<user, loading, requests, memory, memLoads, gestures, roadmap,
                       error, showResetMenu, now, notCareer>>

\* the Reset button opens or closes the menu; a click outside closes it
ToggleResetMenu ==
    /\ showResetMenu' = ~showResetMenu
    /\ last' = "ResetMenu"
    /\ UNCHANGED <<user, loading, requests, memory, memLoads, gestures, formData,
                   roadmap, error, now, hookIdle, notCareer>>

\* handleSubmit up to its fetch; the browser submits only with the required fields
\* filled and the button enabled
handleSubmit ==
    /\ ~loading
    /\ formData.currentEducation # "" /\ formData.interests # "" /\ formData.strengths # ""
    /\ nsent < MaxSends
    /\ nsent' = nsent + 1
    /\ gestures < MaxGestures
    /\ gestures' = gestures + 1
    /\ loading' = TRUE
    /\ error' = ""
    /\ roadmap' = ""
    /\ requests' = requests \cup {[kind |-> "career", body |-> formData, user |-> user]}
    /\ last' = "Submit"
    /\ UNCHANGED <<user, memory, memLoads, formData, showResetMenu, now, hookIdle,
                   notCareerButSends>>

\* handleSubmit resumes: the roadmap is shown and the goal stored, or the catch
\* block shows the error; the finally block ends loading
CareerResponse ==
    \E r \in requests :
        /\ requests' = requests \ {r}
        /\ loading' = FALSE
        /\ \/ /\ roadmap' = "roadmap"
              /\ memory' = IF r.user
                           THEN memory \o <<CareerGoalRow(r.body), CareerRoadmapRow("roadmap")>>
                           ELSE memory
              /\ error' = error
              /\ last' = "Roadmap"
           \/ /\ r.user
              /\ roadmap' = "roadmap"
              /\ memory' \in {memory, Append(memory, CareerGoalRow(r.body))}
              /\ error' = "Failed to generate roadmap"
              /\ last' = "InsertFailed"
           \/ /\ UNCHANGED <<roadmap, memory>>
              /\ error' = "Failed to generate roadmap"
              /\ last' = "SubmitFailed"
        /\ UNCHANGED <<user, memLoads, gestures, formData, showResetMenu, now, hookIdle,
                       notCareer>>

resetKeepingSnapshot(newValue) ==
    /\ snapshot' = IF showUndo THEN snapshot ELSE [defined |-> TRUE, value |-> resetState]
    /\ resetState' = newValue
    /\ showUndo' = TRUE
    /\ undoDeadline' = now + UndoTimeout
    /\ formData' = newValue

\* resetCareer(newValue): reset() of the page's useResetWithUndo, whose onReset is
\* setFormData; the window it opens closes UndoTimeout later
resetCareer(newValue) ==
    /\ snapshot' = [defined |-> TRUE, value |-> resetState]
    /\ resetState' = newValue
    /\ showUndo' = TRUE
    /\ undoDeadline' = now + UndoTimeout
    /\ formData' = newValue

\* the three entries of the reset menu
ResetMenuClick(newValue, label) ==
    /\ showResetMenu
    /\ gestures < MaxGestures
    /\ gestures' = gestures + 1
    /\ resetCareer(newValue)
    /\ showResetMenu' = FALSE
    /\ last' = IF showUndo THEN "ResetWhileOpen" ELSE label
    /\ UNCHANGED <<user, loading, requests, memory, memLoads, roadmap, error, now,
                   priorState, notCareer>>

ResetEducation == ResetMenuClick([formData EXCEPT !.currentEducation = ""], "Reset")

ResetInterests == ResetMenuClick([formData EXCEPT !.interests = ""], "Reset")

ResetAll == ResetMenuClick(EmptyForm, "Reset")

\* undoReset: undo() of the controller, from the toast while the window is open,
\* or called after it closed
undoReset ==
    /\ gestures < MaxGestures
    /\ gestures' = gestures + 1
    /\ last' = IF showUndo THEN "undo" ELSE "undoClosed"
    /\ IF showUndo
       THEN /\ resetState' = snapshot.value
            /\ formData' = snapshot.value
            /\ snapshot' = NoCareerSnapshot
            /\ showUndo' = FALSE
       ELSE UNCHANGED <<resetState, formData, snapshot, showUndo>>
    /\ UNCHANGED <<user, loading, requests, memory, memLoads, roadmap, error,
                   showResetMenu, now, undoDeadline, notCareer>>

\* the window closes without restoring: by dismissUndo of the toast, or by itself
\* once the deadline is reached
CareerCloseWindow(how) ==
    /\ showUndo
    /\ how = "expire" => now >= undoDeadline
    /\ showUndo' = FALSE
    /\ snapshot' = NoCareerSnapshot
    /\ last' = how
    /\ IF how = "dismiss" THEN gestures < MaxGestures /\ gestures' = gestures + 1
                          ELSE UNCHANGED gestures
    /\ UNCHANGED <<user, loading, requests, memory, memLoads, formData,
                   roadmap, error, showResetMenu, now, resetState, undoDeadline,
                   notCareer>>

CareerDismissUndo == CareerCloseWindow("dismiss")

CareerUndoExpires == CareerCloseWindow("expire")

\* time passes; the timer of an open window fires before the clock passes its
\* deadline
Tick ==
    /\ now < MaxTicks * TickMs
    /\ ~(showUndo /\ now >= undoDeadline)
    /\ now' = now + TickMs
    /\ last' = "Tick"
    /\ UNCHANGED <<user, loading, requests, memory, memLoads, gestures, formData,
                   roadmap, error, showResetMenu, hookIdle, notCareer>>

CareerNext ==
    \/ CareerUserLoaded
    \/ GoalResolve
    \/ EditField
    \/ ToggleResetMenu
    \/ handleSubmit
    \/ CareerResponse
    \/ ResetEducation
    \/ ResetInterests
    \/ ResetAll
    \/ undoReset
    \/ CareerDismissUndo
    \/ CareerUndoExpires
    \/ Tick

SpecCareer == CareerInit /\ [][CareerNext]_vars

\* ------------------------------------------------------------- API routes
\* requests one run sends to the routes
MaxApiRequests == 1

Routes == {"chat", "2min-concept", "career", "exam-planner"}

\* JSON values as the route sees them after request.json()
Undef == [t |-> "undefined", v |-> ""]

Str(text) == [t |-> "string", v |-> text]

Num(n) == [t |-> "number", v |-> n]

Arr == [t |-> "array", v |-> ""]

\* !value
Falsy(value) ==
    \/ value.t = "undefined"
    \/ value.t = "string" /\ value.v = ""
    \/ value.t = "number" /\ value.v = 0

\* the date-only strings of the model and the day (UTC) each one names; the server
\* clock is in day 10
DateStrings == {"d09", "d10", "d11", "d12"}

DayOf(text) == CASE text = "d09" -> 9 [] text = "d10" -> 10 [] text = "d11" -> 11
                 [] text = "d12" -> 12

\* the instant of the server clock, in hours since day 0 (UTC)
NowHours(hour) == 10 * 24 + hour

\* floor(a / b) for b > 0
FloorDiv(a, b) == IF a >= 0 THEN a \div b ELSE -((-a + b - 1) \div b)

\* setHours(0, 0, 0, 0): the local day an instant falls into, tz the offset of the
\* server's zone from UTC in hours
LocalDay(instantHours, tz) == FloorDiv(instantHours + tz, 24)

NaN == [nan |-> TRUE, v |-> 0]

\* new Date(examDate), both dates set to local midnight, and the difference in
\* days rounded up: NaN when examDate is not a date
daysUntilExam(examDate, hour, tz) ==
    IF examDate.t = "string" /\ examDate.v \in DateStrings
    THEN [nan |-> FALSE,
          v |-> LocalDay(DayOf(examDate.v) * 24, tz) - LocalDay(NowHours(hour), tz)]
    ELSE IF examDate.t = "number"
         THEN [nan |-> FALSE, v |-> LocalDay(0, tz) - LocalDay(NowHours(hour), tz)]
         ELSE NaN

\* daysUntilExam < 1, false for NaN
LessThanOne(days) == ~days.nan /\ days.v < 1

\* the bodies a client may send to a route: text that is not JSON, the JSON value
\* null, or an object with the fields the route reads
BodiesOf(route) ==
    {[kind |-> "malformed"], [kind |-> "null"]} \cup
    CASE route = "chat" ->
           {[kind |-> "object", messages |-> m] : m \in {Undef, Arr, Str("x")}}
      [] route = "2min-concept" ->
           {[kind |-> "object", topic |-> t] : t \in {Undef, Str(""), Str("x"), Num(5), Arr}}
      [] route = "career" ->
           {[kind |-> "object", currentEducation |-> e, interests |-> i, strengths |-> st,
             goals |-> g] :
               e \in {Undef, Str("12th")}, i \in {Undef, Str(""), Str("x")},
               st \in {Undef, Str("x")}, g \in {Undef, Str("x")}}
      [] route = "exam-planner" ->
           {[kind |-> "object", examName |-> n, examDate |-> d, subjects |-> sb,
             dailyHours |-> h] :
               n \in {Undef, Str("x")},
               d \in {Undef, Str(""), Str("abc"), Num(1)} \cup {Str(t) : t \in DateStrings},
               sb \in {Undef, Str("a,b"), Arr},
               h \in {Undef, Num(0), Num(2)}}

AuthFailsWithoutProvider(req) == ~req.session

\* the check at the head of every route: the provider is configured and there is
\* no session
AuthFails(req) == req.configured /\ ~req.session

\* the validation of a route that answers 400
Invalid(req) ==
    CASE req.route = "chat" -> Falsy(req.body.messages) \/ req.body.messages.t # "array"
      [] req.route = "2min-concept" -> Falsy(req.body.topic) \/ req.body.topic.t # "string"
      [] req.route = "career" ->
           Falsy(req.body.currentEducation) \/ Falsy(req.body.interests)
               \/ Falsy(req.body.strengths)
      [] req.route = "exam-planner" ->
           \/ Falsy(req.body.examName) \/ Falsy(req.body.examDate)
           \/ Falsy(req.body.subjects) \/ Falsy(req.body.dailyHours)
           \/ LessThanOne(daysUntilExam(req.body.examDate, req.hour, req.tz))

\* code after the validation that throws before the completion client is called:
\* subjects.split of a value that is not a string
ThrowsBeforeCompletion(req) ==
    req.route = "exam-planner" /\ req.body.subjects.t # "string"

Response(status, called) == [status |-> status, called |-> called]

\* POST of a route: upstreamOk tells whether the completion client answers
POST(req, upstreamOk) ==
    IF AuthFails(req) THEN Response(401, FALSE)
    ELSE IF req.body.kind # "object" THEN Response(500, FALSE)
    ELSE IF Invalid(req) THEN Response(400, FALSE)
    ELSE IF ThrowsBeforeCompletion(req) THEN Response(500, FALSE)
    ELSE IF upstreamOk THEN Response(200, TRUE)
    ELSE Response(500, TRUE)

\* the state no route touches
notApi == <<user, messages, input, loading, currentSessionId, currentTitle,
            hasGeneratedTitle, sessionStore, nextId, history, requests, saves,
            titleJobs, loads, handler, titleCalls, alerts, deletedSessions, heap,
            streams, timers, memory, memLoads, conversations, resetState, snapshot,
            showUndo, priorState, gestures, sessionIdRef, crashed, careerOnly,
            profileOnly, draftOnly>>

ApiInit ==
    /\ OutsidePagesAtStart
    /\ CareerAtMount
    /\ user = FALSE /\ messages = <<>> /\ input = <<>> /\ loading = FALSE
    /\ currentSessionId = 0 /\ currentTitle = NewChatTitle /\ hasGeneratedTitle = FALSE
    /\ sessionStore = 0 /\ nextId = 1
    /\ history = [sid \in SessionIds |-> Absent]
    /\ requests = {} /\ saves = {} /\ titleJobs = {} /\ loads = {} /\ handler = Idle
    /\ nsent = 0 /\ titleCalls = 0 /\ alerts = 0 /\ deletedSessions = {}
    /\ heap = <<>> /\ streams = {} /\ timers = {} /\ memory = <<>> /\ memLoads = {}
    /\ conversations = <<>>
    /\ resetState = EmptyForm /\ snapshot = NoCareerSnapshot /\ priorState = EmptyForm
    /\ showUndo = FALSE /\ gestures = 0 /\ sessionIdRef = 0 /\ crashed = FALSE
    /\ last = "start"

\* a request reaches a route; hour and tz are the server's clock and zone
ApiReceive ==
    /\ nsent < MaxApiRequests
    /\ apiResponse.status # 0 \/ apiRequest.route = "none"
    /\ \E route \in Routes, configured \in BOOLEAN, session \in BOOLEAN,
          hour \in {1, 23}, tz \in {-5, 0, 5} :
          \E body \in BodiesOf(route) :
              apiRequest' = [route |-> route, configured |-> configured,
                             session |-> session, body |-> body, hour |-> hour,
                             tz |-> tz]
    /\ apiResponse' = [status |-> 0]
    /\ nsent' = nsent + 1
    /\ last' = "Receive"
    /\ UNCHANGED <<completionCalls, notApi>>

\* the route answers
ApiRespond ==
    /\ apiRequest.route # "none" /\ apiResponse.status = 0
    /\ \E upstreamOk \in BOOLEAN : apiResponse' = POST(apiRequest, upstreamOk)
    /\ completionCalls' = completionCalls + (IF apiResponse'.called THEN 1 ELSE 0)
    /\ last' = "Respond"
    /\ UNCHANGED <<apiRequest, nsent, notApi>>

ApiNext ==
    \/ ApiReceive
    \/ ApiRespond

SpecApi == ApiInit /\ [][ApiNext]_vars

\* --------------------------------------- claims: history store and selection

C19_SelectShowsSelected ==
    [][\A l \in loads :
          (/\ last' = "LoadResolve" /\ l \notin loads'
           /\ l.sel # 0 /\ \A k \in loads' : k.sel = 0)
          => /\ currentSessionId' = l.sel
             /\ l.sid = l.sel
             /\ messages' = l.result.messages]_vars

\* C12: while the active session stays the same, every message of the transcript
\* stays where it is: the transcript only grows at its end.
C12_TranscriptOnlyGrows ==
    [][currentSessionId' = currentSessionId =>
          /\ Len(messages') >= Len(messages)
          /\ SubSeq(messages', 1, Len(messages)) = messages]_vars

\* C15: when a request fails, the error message is appended to the transcript as
\* it is (nothing before it changes), loading ends, and no request is dispatched.
C15_FailureAppendsOneError ==
    [][last' = "ArriveError" =>
          /\ messages' = Append(messages, ErrorMessage)
          /\ ~loading'
          /\ nsent' = nsent
          /\ requests' \subseteq requests /\ requests' # requests]_vars

\* a send has failed: the user's message is followed by the error message
C15_Witness ==
    /\ last = "ArriveError"
    /\ Len(messages) = 2
    /\ messages[1].role = "user" /\ messages[2] = ErrorMessage

\* C17: no save in flight, no save a handler awaits and no record of the store
\* has an empty message list.
C17_NoEmptySave ==
    /\ \A s \in saves : Len(s.messages) > 0
    /\ handler.op \in {"NewChat", "ResetChat", "SelectChat"} => Len(handler.save.messages) > 0
    /\ \A sid \in SessionIds : history[sid].present => Len(history[sid].messages) > 0

\* New Chat awaits the save of a transcript while the store holds a record
C17_Witness ==
    /\ handler.op = "NewChat" /\ Len(handler.save.messages) > 0
    /\ history[1].present

\* C18: whenever the transcript changes to a non-empty value while a user is
\* signed in, a save of exactly that transcript under the active session id is in
\* flight after the step.
C18_MutationTriggersSave ==
    [][(messages' # messages /\ messages' # <<>> /\ user') =>
          \E s \in saves' : s.sid = currentSessionId' /\ s.messages = messages']_vars

\* the first message of a signed-in user has been appended and its save is in flight
C18_Witness ==
    /\ user /\ Len(messages) = 1 /\ last \in {"Send", "2MinConceptNoTopic"}
    /\ \E s \in saves : s.sid = currentSessionId /\ s.messages = messages

C13_UndoWindowExpires ==
    /\ [](showUndo => now <= undoDeadline)
    /\ [][   /\ undoDeadline' # undoDeadline =>
                    /\ last' \in {"Reset", "ResetWhileOpen"}
                    /\ undoDeadline' = now + UndoTimeout
             /\ last' = "expire" =>
                    /\ now >= undoDeadline
                    /\ ~showUndo' /\ ~snapshot'.defined
                    /\ resetState' = resetState /\ formData' = formData
             /\ last' = "undoClosed" =>
                    /\ ~showUndo /\ ~showUndo'
                    /\ resetState' = resetState /\ formData' = formData
             /\ last' = "undo" => showUndo]_vars

\* a reset emptied a filled form, the window ran out, and the undo() called after
\* that left the emptied form
C13_Witness ==
    /\ last = "undoClosed" /\ gestures = 2
    /\ now > undoDeadline /\ undoDeadline > 0
    /\ formData = resetState
    /\ formData.interests = "" /\ formData.currentEducation # ""

\* C14: the controller holds a snapshot exactly while the undo window is open; a
\* reset, also one made while a window is open, makes the value just before it the
\* snapshot, and undo() in the open window makes the snapshot the value and closes
\* the window.
C14_OneSnapshotPerWindow ==
    /\ [](snapshot.defined <=> showUndo)
    /\ [][   /\ last' \in {"Reset", "ResetWhileOpen"} =>
                    /\ showUndo'
                    /\ snapshot' = [defined |-> TRUE, value |-> resetState]
             /\ (last' = "undo" /\ showUndo) =>
                    /\ resetState' = snapshot.value
                    /\ ~showUndo' /\ ~snapshot'.defined]_vars

\* a second reset was made while the window of the first was open: the snapshot is
\* the value the first reset set, not the value before the first reset
C14_Witness ==
    /\ last = "ResetWhileOpen" /\ showUndo
    /\ snapshot.defined
    /\ snapshot.value # EmptyForm
    /\ resetState = EmptyForm

\* C16: while loading is set, a request of the page is still under way whose end
\* (reply, failure or error message) sets loading back to false: no failure of a
\* call a handler awaits leaves loading set with nothing left to end it.
C16_LoadingEnds == (loading /\ ~crashed) => (Outstanding # {} \/ requests # {})

\* C30: a save that the resolution of a load starts is a save for the session the
\* load read: the transcript and title a load puts on the page are never written
\* to the record of another session, whichever of the two loads of a select
\* resolves last.
C30_NoTranscriptMixing ==
    [][last' = "LoadResolve" =>
           \A s \in saves' \ saves : \A l \in loads \ loads' : l.sid = s.sid]_vars

\* C24: the stored session id changes only when a handler rotates it (New Chat,
\* Reset Chat, Delete All Chats); getOrCreate() on the stored id returns that id
\* again, and a reload makes it the active session id without changing it.
C24_SessionIdStable ==
    [][/\ sessionStore' # sessionStore =>
              last' \in {"NewChat", "ResetChat", "DeleteAllChats", "DeleteAllChatsFailed"}
       /\ getOrCreateHistorySessionId(sessionStore') = sessionStore'
       /\ last' = "Reload" =>
              /\ sessionStore' = getOrCreateHistorySessionId(sessionStore)
              /\ sessionStore' = sessionStore
              /\ currentSessionId' = sessionStore]_vars

\* the page was reloaded after a rotation and continues the rotated session
C24_Witness ==
    /\ last = "Reload" /\ gestures = 1
    /\ sessionStore = 2
    /\ currentSessionId = sessionStore

\* the payload of a message matches its kind, and a user message has neither a
\* confidence nor a follow-up question
PayloadMatchesKind(m) ==
    /\ m.type = "concept" => m.data = "concept"
    /\ m.type = "weakness" => m.data = "weakness"
    /\ m.type \in {"normal", "undefined"} => m.data = "none"
    /\ m.role = "user" => m.confidence = "undefined" /\ ~m.askBackQuestion.defined

\* C29: every message object of ChatPage, in the transcript or not, carries the
\* payload of its kind and no other, and confidence and follow-up question are set
\* on assistant messages only.
C29_OnePayloadPerKind == \A id \in 1..Len(heap) : PayloadMatchesKind(heap[id])

\* the final parse of a stream has set the confidence of an assistant message
\* while the transcript also holds a user message
C29_Witness ==
    /\ last = "StreamFinal"
    /\ \E i \in 1..Len(messages) : heap[messages[i]].role = "user"
    /\ \E i \in 1..Len(messages) :
           /\ heap[messages[i]].role = "assistant"
           /\ heap[messages[i]].confidence = "high"

\* a request has been answered
Answered == apiRequest.route # "none" /\ apiResponse.status # 0

\* C27: a route answers 401 exactly when the auth provider is configured and the
\* request has no session, whatever the body is, and then it has not called the
\* completion client; without a configured provider no answer is 401.
C27_UnauthorizedIffNoSession ==
    Answered =>
        /\ apiResponse.status = 401 <=> (apiRequest.configured /\ ~apiRequest.session)
        /\ apiResponse.status = 401 => ~apiResponse.called
        /\ ~apiRequest.configured => apiResponse.status # 401

\* a request without a session and with a body that is not JSON was answered 401
C27_Witness ==
    /\ Answered /\ apiResponse.status = 401
    /\ apiRequest.configured /\ ~apiRequest.session
    /\ apiRequest.body.kind = "malformed"

\* with the provider configured a session is there, or the provider is not
\* configured: the auth check lets the request through
AuthPasses == apiRequest.configured => apiRequest.session

\* C28: with authentication passing, a request whose body is missing, is not JSON
\* or fails the validation of its route is answered with a 4xx, and the completion
\* client is not called for it.
C28_ValidationIs4xx ==
    (Answered /\ AuthPasses /\ (apiRequest.body.kind # "object" \/ Invalid(apiRequest))) =>
        /\ apiResponse.status \in 400..499
        /\ ~apiResponse.called

\* the exam date of the request names a day after the server's today
ExamDateInFuture ==
    /\ apiRequest.body.examDate.t = "string"
    /\ apiRequest.body.examDate.v \in DateStrings
    /\ DayOf(apiRequest.body.examDate.v) > LocalDay(NowHours(apiRequest.hour), apiRequest.tz)

ExamFieldMissing ==
    \/ Falsy(apiRequest.body.examName) \/ Falsy(apiRequest.body.examDate)
    \/ Falsy(apiRequest.body.subjects) \/ Falsy(apiRequest.body.dailyHours)

\* C26: with authentication passing, /api/exam-planner answers 400 when a required
\* field is missing or the exam date is today, in the past or not a date, and it
\* calls the completion client and answers 200 only for an exam date at least one
\* day after today.
C26_ExamDateValidated ==
    (Answered /\ AuthPasses /\ apiRequest.route = "exam-planner"
        /\ apiRequest.body.kind = "object") =>
        /\ (ExamFieldMissing \/ ~ExamDateInFuture) => apiResponse.status = 400
        /\ apiResponse.called => ExamDateInFuture
        /\ apiResponse.status = 200 => ExamDateInFuture

\* ------------------------------------------------------------ ProfileHistory
\* the module types of history records
ModuleTypes == {"chat", "notes", "career", "exam_planner", "confusion"}

\* the module types of the records the user has stored
StoredModules == {"chat", "career"}

\* the values of the module filter
FilterValues == {"all"} \cup ModuleTypes

\* the state ProfileHistory leaves alone
notProfile == <<messages, input, currentSessionId, currentTitle, hasGeneratedTitle,
                sessionStore, nextId, requests, saves, titleJobs, nsent, titleCalls,
                deletedSessions, chatButGestures, careerOnly, apiOnly, draftOnly>>

\* a suspended handler of ProfileHistory; arg is what its closure holds
ProfileHandler(op, arg) == [op |-> op, save |-> Absent, sid |-> 0, arg |-> arg]

\* the stored records of a module
RecordsOf(h, mod) == {sid \in SessionIds : h[sid].present /\ moduleOf[sid] = mod}

\* getAllHistory(supabase, user.id, moduleType): the session ids of the stored
\* records, of one module unless the filter is 'all'
getAllHistory(h, filter) ==
    {sid \in SessionIds : h[sid].present /\ (filter = "all" \/ moduleOf[sid] = filter)}

\* the store without the records in gone
RemoveRecords(h, gone) == [sid \in SessionIds |-> IF sid \in gone THEN Absent ELSE h[sid]]

\* the outcomes of deleteAllHistoryByModule for every module in mods: ok is the
\* set of modules whose call reports success (all its records are gone); a call
\* that reports failure has left some or all records of its module in the store
ModuleDeleteOutcomes(h, mods) ==
    LET all == UNION {RecordsOf(h, mod) : mod \in mods}
    IN  {o \in [ok : SUBSET mods, gone : SUBSET all] :
            \A mod \in mods :
                LET recs == RecordsOf(h, mod)
                    gm == o.gone \cap recs
                IN  IF mod \in o.ok THEN gm = recs ELSE (gm # recs \/ recs = {})}

\* ProfileHistory after construction, before useUser() has a user: the store holds
\* a record for every session id, each of some module
ProfileInit ==
    /\ ApiAtStart
    /\ DraftAtStart
    /\ CareerAtMount
    /\ user = FALSE /\ messages = <<>> /\ input = <<>> /\ loading = TRUE
    /\ currentSessionId = 0 /\ currentTitle = NewChatTitle /\ hasGeneratedTitle = FALSE
    /\ sessionStore = 0 /\ nextId = 1
    /\ history = [sid \in SessionIds |-> Record(<<>>, Undefined)]
    /\ requests = {} /\ saves = {} /\ titleJobs = {} /\ loads = {}
    /\ handler = ProfileHandler("idle", {})
    /\ nsent = 0 /\ titleCalls = 0 /\ alerts = 0 /\ deletedSessions = {}
    /\ heap = <<>> /\ streams = {} /\ timers = {} /\ memory = <<>> /\ memLoads = {}
    /\ conversations = <<>>
    /\ resetState = EmptyForm /\ snapshot = NoCareerSnapshot /\ priorState = EmptyForm
    /\ showUndo = FALSE /\ gestures = 0 /\ sessionIdRef = 0 /\ crashed = FALSE
    /\ historyList = {} /\ selectedItems = {} /\ selectAll = FALSE
    /\ filterModule = "all"
    /\ moduleOf \in [SessionIds -> StoredModules]
    /\ last = "start"

\* loadHistory up to its await: loading is set and the query is sent with the
\* filter of the render that called it
loadHistory(filter) ==
    /\ loading' = TRUE
    /\ loads' = loads \cup {[phase |-> "query", filter |-> filter, items |-> {}]}

\* the effect on [user, filterModule]: the user becomes known
ProfileUserLoaded ==
    /\ ~user
    /\ user' = TRUE
    /\ loadHistory(filterModule)
    /\ last' = "UserLoaded"
    /\ UNCHANGED <<history, handler, alerts, gestures, memory, memLoads, profileOnly,
                   notProfile>>

\* a click on a filter chip: setFilterModule, and the effect runs loadHistory if
\* the filter has changed and there is a user
SetFilterModule(f) ==
    /\ gestures < MaxGestures
    /\ f # filterModule
    /\ filterModule' = f
    /\ gestures' = gestures + 1
    /\ IF user THEN loadHistory(f) ELSE UNCHANGED <<loading, loads>>
    /\ last' = "SetFilter"
    /\ UNCHANGED <<user, history, handler, alerts, memory, memLoads, historyList,
                   selectedItems, selectAll, moduleOf, notProfile>>

\* the store answers the query of a loadHistory
HistoryQuery ==
    \E l \in loads :
        /\ l.phase = "query"
        /\ loads' = (loads \ {l}) \cup
                {[l EXCEPT !.phase = "reply", !.items = getAllHistory(history, l.filter)]}
        /\ last' = "HistoryQuery"
        /\ UNCHANGED <<user, loading, history, handler, alerts, gestures, memory,
                       memLoads, profileOnly, notProfile>>

\* loadHistory resumes: setHistory(items), or the error is logged; loading ends
HistoryResolve ==
    \E l \in loads :
        /\ l.phase = "reply"
        /\ loads' = loads \ {l}
        /\ loading' = FALSE
        /\ \/ historyList' = l.items /\ last' = "HistoryResolve"
           \/ UNCHANGED historyList /\ last' = "HistoryLoadFailed"
        /\ UNCHANGED <<user, history, handler, alerts, gestures, memory, memLoads,
                       selectedItems, selectAll, filterModule, moduleOf, notProfile>>

\* handleSelectAll; the bulk actions are rendered while the list is not empty
handleSelectAll ==
    /\ gestures < MaxGestures
    /\ historyList # {}
    /\ gestures' = gestures + 1
    /\ IF selectAll
         THEN selectedItems' = {} /\ selectAll' = FALSE
         ELSE selectedItems' = historyList /\ selectAll' = TRUE
    /\ last' = "SelectAll"
    /\ UNCHANGED <<user, loading, history, loads, handler, alerts, memory, memLoads,
                   historyList, filterModule, moduleOf, notProfile>>

\* handleToggleSelect(sessionId) on a listed item; the items are rendered while
\* nothing is loading
handleToggleSelect(sid) ==
    /\ gestures < MaxGestures
    /\ ~loading
    /\ sid \in historyList
    /\ gestures' = gestures + 1
    /\ IF sid \in selectedItems
         THEN /\ selectedItems' = selectedItems \ {sid}
              /\ selectAll' = (Cardinality(selectedItems') = Cardinality(historyList)
                                    /\ Cardinality(historyList) > 0)
         ELSE /\ selectedItems' = selectedItems \cup {sid}
              /\ selectAll' = (Cardinality(selectedItems') = Cardinality(historyList))
    /\ last' = "ToggleSelect"
    /\ UNCHANGED <<user, loading, history, loads, handler, alerts, memory, memLoads,
                   historyList, filterModule, moduleOf, notProfile>>

\* a handler of ProfileHistory that is confirmed, finds a user and reaches its
\* await
ProfileSuspend(op, arg) ==
    /\ gestures < MaxGestures
    /\ user
    /\ handler.op = "idle"
    /\ handler' = ProfileHandler(op, arg)
    /\ gestures' = gestures + 1
    /\ last' = op
    /\ UNCHANGED <<user, loading, history, loads, alerts, memory, memLoads, profileOnly,
                   notProfile>>

\* handleDeleteItem(sessionId) up to its await
handleDeleteItem ==
    /\ ~loading
    /\ \E sid \in historyList : ProfileSuspend("DeleteItem", sid)

\* handleClearModule(filterModule) up to its await; the button is rendered while
\* a module is filtered and the list is not empty
handleClearModule ==
    /\ filterModule # "all"
    /\ historyList # {}
    /\ ProfileSuspend("ClearModule", filterModule)

\* handleDeleteSelected up to its await
handleDeleteSelected ==
    /\ historyList # {}
    /\ selectedItems # {}
    /\ ProfileSuspend("DeleteSelected", selectedItems)

\* handleResetAllHistory up to its await
handleResetAllHistory ==
    /\ historyList # {}
    /\ ProfileSuspend("ResetAllHistory", ModuleTypes)

\* what a resumed handler leaves alone besides the store, the list and the selection
afterDelete == <<user, loading, loads, gestures, memory, memLoads, filterModule,
                 moduleOf, notProfile>>

\* a handler that has reported its failure with alert(): nothing else changes in
\* the component
AlertOnly(label) ==
    /\ alerts' = alerts + 1
    /\ last' = label
    /\ UNCHANGED <<historyList, selectedItems, selectAll>>

\* handleDeleteItem resumes with the result of deleteSession
DeleteItemResume ==
    /\ handler.op = "DeleteItem"
    /\ handler' = ProfileHandler("idle", {})
    /\ \/ /\ history' = RemoveRecords(history, {handler.arg})
          /\ historyList' = historyList \ {handler.arg}
          /\ last' = "DeleteItemDone"
          /\ UNCHANGED <<alerts, selectedItems, selectAll>>
       \/ /\ UNCHANGED history
          /\ AlertOnly("DeleteItemFailed")
    /\ UNCHANGED afterDelete

\* handleClearModule resumes with the result of deleteAllHistoryByModule
ClearModuleResume ==
    /\ handler.op = "ClearModule"
    /\ handler' = ProfileHandler("idle", {})
    /\ \E o \in ModuleDeleteOutcomes(history, {handler.arg}) :
        /\ history' = RemoveRecords(history, o.gone)
        /\ IF o.ok = {handler.arg}
             THEN /\ historyList' = {sid \in historyList : moduleOf[sid] # handler.arg}
                  /\ selectedItems' = {}
                  /\ selectAll' = FALSE
                  /\ last' = "ClearModuleDone"
                  /\ UNCHANGED alerts
             ELSE AlertOnly("ClearModuleFailed")
    /\ UNCHANGED afterDelete

\* handleDeleteSelected resumes with the results of the deleteSession calls, of
\* which those for done succeeded
DeleteSelectedResume ==
    /\ handler.op = "DeleteSelected"
    /\ handler' = ProfileHandler("idle", {})
    /\ \E done \in SUBSET handler.arg :
        /\ history' = RemoveRecords(history, done)
        /\ IF done = handler.arg
             THEN /\ historyList' = historyList \ handler.arg
                  /\ selectedItems' = {}
                  /\ selectAll' = FALSE
                  /\ last' = "DeleteSelectedDone"
                  /\ UNCHANGED alerts
             ELSE AlertOnly("DeleteSelectedFailed")
    /\ UNCHANGED afterDelete

\* handleResetAllHistory resumes with the results of the five
\* deleteAllHistoryByModule calls
ResetAllHistoryResume ==
    /\ handler.op = "ResetAllHistory"
    /\ handler' = ProfileHandler("idle", {})
    /\ \E o \in ModuleDeleteOutcomes(history, handler.arg) :
        /\ history' = RemoveRecords(history, o.gone)
        /\ IF o.ok = handler.arg
             THEN /\ historyList' = {}
                  /\ selectedItems' = {}
                  /\ selectAll' = FALSE
                  /\ last' = "ResetAllHistoryDone"
                  /\ UNCHANGED alerts
             ELSE AlertOnly("ResetAllHistoryFailed")
    /\ UNCHANGED afterDelete

ProfileNext ==
    \/ ProfileUserLoaded
    \/ \E f \in FilterValues : SetFilterModule(f)
    \/ HistoryQuery
    \/ HistoryResolve
    \/ handleSelectAll
    \/ \E sid \in SessionIds : handleToggleSelect(sid)
    \/ handleDeleteItem
    \/ handleClearModule
    \/ handleDeleteSelected
    \/ handleResetAllHistory
    \/ DeleteItemResume
    \/ ClearModuleResume
    \/ DeleteSelectedResume
    \/ ResetAllHistoryResume

SpecProfile == ProfileInit /\ [][ProfileNext]_vars

\* ------------------------------------------------------ claims: ProfileHistory

\* the bulk deletes that ended with a failure report
FailedBulkDeletes == {"ClearModuleFailed", "DeleteSelectedFailed", "ResetAllHistoryFailed"}

\* C25: a bulk delete (clear module, delete selected, reset all history) that
\* reports failure, partial failure included, makes the component query the store
\* again: when the handler has ended, a loadHistory query is on its way.
C25_FailedBulkDeleteRequeries ==
    [][last' \in FailedBulkDeletes => \E l \in loads' : l.phase = "query"]_vars

\* --------------------------------------------------------------- draft store
\* the clock advances at most this many times while drafts are observed
MaxDraftTicks == 4

\* debounceMs of the pages' useAutoSave calls
DebounceMs == 2500

\* the clock advances in steps of half a debounce interval
DraftTickMs == DebounceMs \div 2

\* the pages that keep a draft: the chat input, the career form, the exam planner form
DraftPages == {"chat", "career", "exam"}

\* the fields of the value a page hands to useAutoSave
PageFields(page) ==
    CASE page = "chat" -> {"input"}
      [] page = "career" -> {"currentEducation", "interests", "strengths", "goals"}
      [] page = "exam" -> {"examName", "examDate", "subjects", "dailyHours"}

\* the fields the user types text into; dailyHours is a select
TextFields(page) == PageFields(page) \ {"dailyHours"}

\* the fields marked required, without which the browser does not submit a form
RequiredFields(page) ==
    CASE page = "chat" -> {}
      [] page = "career" -> {"currentEducation", "interests", "strengths"}
      [] page = "exam" -> {"examName", "examDate", "subjects", "dailyHours"}

\* what a field may hold: a date input holds a date or nothing, the select one of
\* its options, a text field any text
FieldTexts(field) ==
    CASE field = "examDate" -> {<<>>, <<"d11">>}
      [] field = "dailyHours" -> {<<"2">>, <<"3">>}
      [] field = "input" -> {<<>>, <<"SP">>, <<"q">>, <<"q", "q">>}
      [] OTHER -> {<<>>, <<"SP">>, <<"x">>}

\* the useState initial value of a page's input or form
InitialValue(page) ==
    [f \in PageFields(page) |-> IF f = "dailyHours" THEN <<"2">> ELSE <<>>]

\* a draft an earlier visit left in the store
PriorDraft(page) ==
    [present |-> TRUE,
     value |-> [f \in PageFields(page) |-> IF f = "dailyHours" THEN <<"2">>
                                           ELSE IF f = "examDate" THEN <<"d11">>
                                           ELSE IF f = "input" THEN <<"q">>
                                           ELSE <<"x">>]]

\* enabled of ChatPageWithHistory and ChatPage: !!input.trim()
ChatDraftEnabled(v) == Trim(v.input) # <<>>

\* enabled of CareerPage: Object.values(formData).some(v => v.trim())
CareerDraftEnabled(v) == \E f \in DOMAIN v : Trim(v[f]) # <<>>

\* enabled of ExamPlannerPage: !!(examName || subjects || examDate)
ExamDraftEnabled(v) == v.examName # <<>> \/ v.subjects # <<>> \/ v.examDate # <<>>

DraftEnabled(page, v) ==
    CASE page = "chat" -> ChatDraftEnabled(v)
      [] page = "career" -> CareerDraftEnabled(v)
      [] page = "exam" -> ExamDraftEnabled(v)

\* useAutoSave on a render with a changed value at time t: the pending timer is
\* cancelled, and while enabled a write of the value is scheduled DebounceMs later
useAutoSave(enabled, value, timer, t) ==
    IF enabled THEN [pending |-> TRUE, value |-> value, due |-> t + DebounceMs]
    ELSE NoTimer

\* the function useAutoSave returns (clearDraft, clearFormDraft): the record is removed
clearDraft(d) == NoDraft

\* restoreDraft(key): the stored record, if there is one
restoreDraft(d) == d

\* the value after the mount effect: the initial value, or the restored draft
MountValue(page, d) ==
    LET saved == restoreDraft(d)
    IN  IF saved.present THEN saved.value ELSE InitialValue(page)

\* the timer after the renders of a mount
MountTimer(page, d, t) ==
    IF MountValue(page, d) = InitialValue(page) THEN NoTimer
    ELSE useAutoSave(DraftEnabled(page, MountValue(page, d)), MountValue(page, d), NoTimer, t)

\* the state the draft store and its pages leave alone
notDraft == <<user, messages, input, currentSessionId, currentTitle, hasGeneratedTitle,
              sessionStore, nextId, history, saves, titleJobs, loads, handler,
              titleCalls, alerts, deletedSessions, heap, streams, timers, memory,
              memLoads, conversations, priorState, sessionIdRef, crashed, formData,
              roadmap, error, showResetMenu, undoDeadline, apiOnly, profileOnly>>

\* the reset controller of a page at rest
undoIdle == <<resetState, snapshot, showUndo>>

NoDraftSnapshot(page) == [defined |-> FALSE, value |-> InitialValue(page)]

\* a page after its mount, without a signed-in user; the store may hold a draft
\* of an earlier visit
DraftInit ==
    /\ ApiAtStart
    /\ ProfileAtMount
    /\ formData = EmptyForm /\ roadmap = "" /\ error = "" /\ showResetMenu = FALSE
    /\ now = 0 /\ undoDeadline = 0
    /\ user = FALSE /\ messages = <<>> /\ input = <<>> /\ loading = FALSE
    /\ currentSessionId = 0 /\ currentTitle = NewChatTitle /\ hasGeneratedTitle = FALSE
    /\ sessionStore = 0 /\ nextId = 1
    /\ history = [sid \in SessionIds |-> Absent]
    /\ requests = {} /\ saves = {} /\ titleJobs = {} /\ loads = {} /\ handler = Idle
    /\ nsent = 0 /\ titleCalls = 0 /\ alerts = 0 /\ deletedSessions = {}
    /\ heap = <<>> /\ streams = {} /\ timers = {} /\ memory = <<>> /\ memLoads = {}
    /\ conversations = <<>>
    /\ priorState = EmptyForm /\ gestures = 0 /\ sessionIdRef = 0 /\ crashed = FALSE
    /\ draftPage \in DraftPages
    /\ draft \in {NoDraft, PriorDraft(draftPage)}
    /\ draftValue = MountValue(draftPage, draft)
    /\ draftTimer = MountTimer(draftPage, draft, 0)
    /\ draftWrites = 0
    /\ resetState = InitialValue(draftPage)
    /\ snapshot = NoDraftSnapshot(draftPage)
    /\ showUndo = FALSE
    /\ last = "start"

\* a page that hands a changed value to the debounce only while no timer is
\* pending: the first change of a burst wins
SetValueFirstWins(v) ==
    /\ draftValue' = v
    /\ draftTimer' = IF v = draftValue \/ (draftTimer.pending /\ DraftEnabled(draftPage, v))
                       THEN draftTimer
                     ELSE useAutoSave(DraftEnabled(draftPage, v), v, draftTimer, now)

\* setInput / setFormData with v and the render that follows: useAutoSave sees
\* the value only if it has changed
SetValue(v) ==
    /\ draftValue' = v
    /\ draftTimer' = IF v = draftValue THEN draftTimer
                     ELSE useAutoSave(DraftEnabled(draftPage, v), v, draftTimer, now)

\* onChange of a field; the chat input is disabled while a send is in flight
DraftEdit ==
    \E f \in PageFields(draftPage) : \E text \in FieldTexts(f) :
        /\ gestures < MaxGestures
        /\ draftPage = "chat" => ~loading
        /\ text # draftValue[f]
        /\ gestures' = gestures + 1
        /\ SetValue([draftValue EXCEPT ![f] = text])
        /\ last' = "DraftEdit"
        /\ UNCHANGED <<draftPage, draft, draftWrites, now, loading, requests, nsent,
                       undoIdle, notDraft>>

\* the debounce timer fires: the value it was scheduled with is written, or the
\* storage is unavailable and the write fails silently
DraftFlush ==
    /\ draftTimer.pending
    /\ now >= draftTimer.due
    /\ draftTimer' = NoTimer
    /\ \/ /\ draft' = [present |-> TRUE, value |-> draftTimer.value]
          /\ draftWrites' = draftWrites + 1
          /\ last' = "DraftFlush"
       \/ /\ UNCHANGED <<draft, draftWrites>>
          /\ last' = "DraftFlushFailed"
    /\ UNCHANGED <<draftPage, draftValue, now, loading, requests, gestures, nsent,
                   undoIdle, notDraft>>

\* time passes; a pending timer fires before the clock passes its due time
DraftTick ==
    /\ now < MaxDraftTicks * DraftTickMs
    /\ ~(draftTimer.pending /\ now >= draftTimer.due)
    /\ now' = now + DraftTickMs
    /\ last' = "DraftTick"
    /\ UNCHANGED <<draftOnly, loading, requests, gestures, nsent, undoIdle, notDraft>>

\* handleSend up to its fetch (the input is emptied), or handleSubmit of a form up
\* to its fetch (the form keeps its value)
DraftSubmit ==
    /\ ~loading
    /\ nsent < MaxSends
    /\ gestures < MaxGestures
    /\ IF draftPage = "chat"
         THEN Trim(draftValue.input) # <<>> /\ SetValue(InitialValue("chat"))
         ELSE /\ \A f \in RequiredFields(draftPage) : draftValue[f] # <<>>
              /\ UNCHANGED <<draftValue, draftTimer>>
    /\ nsent' = nsent + 1
    /\ gestures' = gestures + 1
    /\ loading' = TRUE
    /\ requests' = requests \cup {[kind |-> draftPage, body |-> draftValue, user |-> user]}
    /\ last' = "DraftSubmit"
    /\ UNCHANGED <<draftPage, draft, draftWrites, now, undoIdle, notDraft>>

\* a handler whose success path does not clear the draft
DraftResponseKeepingDraft ==
    \E r \in requests :
        /\ requests' = requests \ {r}
        /\ loading' = FALSE
        /\ last' \in {"DraftSubmitDone", "DraftSubmitFailed"}
        /\ UNCHANGED <<draftOnly, now, gestures, nsent, undoIdle, notDraft>>

\* the handler resumes: on success the result is shown and the draft cleared; an
\* error is shown by the catch block; the finally block ends loading
DraftResponse ==
    \E r \in requests :
        /\ requests' = requests \ {r}
        /\ loading' = FALSE
        /\ \/ draft' = clearDraft(draft) /\ last' = "DraftSubmitDone"
           \/ UNCHANGED draft /\ last' = "DraftSubmitFailed"
        /\ UNCHANGED <<draftPage, draftValue, draftTimer, draftWrites, now, gestures,
                       nsent, undoIdle, notDraft>>

\* reset() of a form's useResetWithUndo, whose onReset is setFormData
resetForm(newValue) ==
    /\ snapshot' = [defined |-> TRUE, value |-> resetState]
    /\ resetState' = newValue
    /\ showUndo' = TRUE
    /\ SetValue(newValue)

\* the discarding handlers. Chat (handleResetInput, handleNewChat, handleResetChat,
\* handleDeleteAllChats): setInput('') and clearDraft(). Forms, Reset All of the
\* reset menu: the controller's reset with the empty form, and clearFormDraft()
DraftDiscard ==
    /\ gestures < MaxGestures
    /\ gestures' = gestures + 1
    /\ IF draftPage = "chat"
         THEN SetValue(InitialValue("chat")) /\ UNCHANGED undoIdle
         ELSE resetForm(InitialValue(draftPage))
    /\ draft' = clearDraft(draft)
    /\ last' = "DraftDiscard"
    /\ UNCHANGED <<draftPage, draftWrites, now, loading, requests, nsent, notDraft>>

\* the entries of a form's reset menu that do not clear the draft: Reset
\* Education and Reset Interests of the career form, Reset Plan Only of the exam
\* planner
DraftPartialReset ==
    /\ draftPage # "chat"
    /\ gestures < MaxGestures
    /\ gestures' = gestures + 1
    /\ \E newValue \in
            IF draftPage = "career"
              THEN {[draftValue EXCEPT !.currentEducation = <<>>],
                    [draftValue EXCEPT !.interests = <<>>]}
              ELSE {InitialValue("exam")} :
          resetForm(newValue)
    /\ last' = "DraftPartialReset"
    /\ UNCHANGED <<draftPage, draft, draftWrites, now, loading, requests, nsent, notDraft>>

\* undoReset from the toast of a form: the controller's undo, whose onReset is
\* setFormData
DraftUndo ==
    /\ draftPage # "chat"
    /\ showUndo
    /\ gestures < MaxGestures
    /\ gestures' = gestures + 1
    /\ resetState' = snapshot.value
    /\ SetValue(snapshot.value)
    /\ snapshot' = NoDraftSnapshot(draftPage)
    /\ showUndo' = FALSE
    /\ last' = "DraftUndo"
    /\ UNCHANGED <<draftPage, draft, draftWrites, now, loading, requests, nsent, notDraft>>

\* the undo window of a form closes without restoring (dismissed or expired)
DraftCloseWindow ==
    /\ showUndo
    /\ showUndo' = FALSE
    /\ snapshot' = NoDraftSnapshot(draftPage)
    /\ last' = "DraftCloseWindow"
    /\ UNCHANGED <<draftOnly, now, loading, requests, gestures, nsent, resetState, notDraft>>

\* the page is loaded again: pending timers and handlers are gone with the old
\* page, the state is the initial one, and the mount effect restores the draft
DraftReload ==
    /\ gestures < MaxGestures
    /\ gestures' = gestures + 1
    /\ draftValue' = MountValue(draftPage, draft)
    /\ draftTimer' = MountTimer(draftPage, draft, now)
    /\ loading' = FALSE
    /\ requests' = {}
    /\ resetState' = InitialValue(draftPage)
    /\ snapshot' = NoDraftSnapshot(draftPage)
    /\ showUndo' = FALSE
    /\ last' = "DraftReload"
    /\ UNCHANGED <<draftPage, draft, draftWrites, now, nsent, notDraft>>

DraftNext ==
    \/ DraftEdit
    \/ DraftFlush
    \/ DraftTick
    \/ DraftSubmit
    \/ DraftResponse
    \/ DraftDiscard
    \/ DraftPartialReset
    \/ DraftUndo
    \/ DraftCloseWindow
    \/ DraftReload

SpecDraft == DraftInit /\ [][DraftNext]_vars

\* ------------------------------------------------------- claims: draft store

\* C21: debounce coalescing. Every change of the observed value (a mount that
\* restores a draft included) cancels the pending timer and, while saving is
\* enabled, schedules one write of the new value a full debounce interval later;
\* a step that does not change the value never schedules anything. A draft is written only by a timer whose idle period
\* has elapsed, one write per timer, and it holds the value of the last change.
C21_DebounceCoalesces ==
    /\ [](draftTimer.pending =>
            /\ draftTimer.value = draftValue
            /\ draftTimer.due <= now + DebounceMs)
    /\ [][   /\ (draftValue' # draftValue \/ last' = "DraftReload") =>
                    draftTimer' \in {NoTimer, [pending |-> TRUE, value |-> draftValue',
                                               due |-> now + DebounceMs]}
             /\ (draftValue' = draftValue /\ last' # "DraftReload") =>
                    draftTimer' \in {draftTimer, NoTimer}
             /\ draftWrites' # draftWrites =>
                    /\ draftWrites' = draftWrites + 1
                    /\ draftTimer.pending /\ now >= draftTimer.due
                    /\ ~draftTimer'.pending
                    /\ draft' = [present |-> TRUE, value |-> draftValue]
             /\ (draft' # draft /\ draft'.present) => draftWrites' # draftWrites]_vars

\* two changes of the chat input less than a debounce interval apart, the second
\* one half an interval after the page was opened, and the single write that
\* follows a full interval after the second
C21_Witness ==
    /\ last = "DraftFlush"
    /\ draftPage = "chat"
    /\ gestures = 2
    /\ now = 3 * DraftTickMs
    /\ draftWrites = 1
    /\ draft.value = [input |-> <<"q", "q">>]

\* C22: when a successful submission (chat send, career form, exam planner form)
\* has called clear, the store holds no draft for the page: a restore returns
\* absent.
C22_DraftClearedOnSuccess ==
    last = "DraftSubmitDone" => ~restoreDraft(draft).present

\* a form whose draft had been written is submitted with success
C22_Witness ==
    /\ last = "DraftSubmitDone"
    /\ draftPage = "career"
    /\ draftWrites = 1
    /\ ~draft.present

\* the text fields of a value are all empty or whitespace-only
AllTextBlank(page, v) == \A f \in TextFields(page) : Trim(v[f]) = <<>>

\* C23: on every page a value whose text fields are all empty or whitespace-only
\* is never written as a draft.
C23_NoBlankDraftWritten ==
    [][draftWrites' # draftWrites => ~AllTextBlank(draftPage, draft'.value)]_vars

\* C39: in the profile history list the selection is a subset of the listed
\* items, and the select-all flag is set exactly when the list is not empty and
\* every listed item is selected.
C39_SelectionWithinList ==
    /\ selectedItems \subseteq historyList
    /\ selectAll <=> (historyList # {} /\ selectedItems = historyList)

\* C31: write-through converges. When a save of the signed-in user's session is
\* carried out and leaves no save in flight while the transcript of the active
\* session is not empty, the record of the active session holds exactly the
\* transcript; a save with an older snapshot that completes late does not leave
\* the record behind the transcript.
C31_WriteThroughConverges ==
    [][(/\ last' = "SaveComplete"
        /\ history' # history
        /\ saves' = {}
        /\ user
        /\ messages # <<>>)
            => /\ history'[currentSessionId].present
               /\ history'[currentSessionId].messages = messages]_vars

\* --------------------------------- ChatPageWithHistory.handleSend and /api/chat
\* reply texts that are JSON documents by themselves: the number 17
JsonTexts == {<<"17">>}

\* the texts the completion service may stream
StreamedTexts == ResponseTexts \cup JsonTexts

\* the body of the answer of /api/chat: the streamed reply text when the route
\* succeeds (StreamingTextResponse), a JSON object with an error otherwise
ChatRouteBody(resp, text) ==
    IF resp.status = 200 THEN [kind |-> "text", text |-> text]
    ELSE [kind |-> "json", error |-> TRUE, response |-> Undefined]

\* await response.json(): the fields handleSend reads, or threw when the body is
\* not a JSON document; a JSON number has neither field
responseJson(body) ==
    IF body.kind = "json"
      THEN [threw |-> FALSE, error |-> body.error, response |-> body.response]
    ELSE IF body.text \in JsonTexts
      THEN [threw |-> FALSE, error |-> FALSE, response |-> Undefined]
    ELSE [threw |-> TRUE, error |-> FALSE, response |-> Undefined]

\* the message handleSend appends for an answer: the parsed data.response, or the
\* notice of the catch block when response.json() throws, when data.error is set,
\* or when parseAIResponse is handed undefined
SendResultMessage(body) ==
    LET data == responseJson(body)
    IN  IF data.threw \/ data.error \/ ~data.response.defined
          THEN ErrorMessage
          ELSE ParsedMessage(data.response.v)

\* the request handleSend posts: an object with the messages array
ChatPost(configured, session) ==
    [route |-> "chat", configured |-> configured, session |-> session,
     body |-> [kind |-> "object", messages |-> Arr], hour |-> 1, tz |-> 0]

\* the rest of handleSend: /api/chat answers the request and the handler appends
\* its message
HistChatResponse ==
    \E r \in requests :
        /\ r.kind = "send"
        /\ \E configured \in BOOLEAN, session \in BOOLEAN, upstreamOk \in BOOLEAN,
              text \in StreamedTexts :
              LET resp == POST(ChatPost(configured, session), upstreamOk)
              IN  /\ apiRequest' = ChatPost(configured, session)
                  /\ apiResponse' = [status |-> resp.status, called |-> resp.called,
                                     text |-> text]
                  /\ completionCalls' = completionCalls + (IF resp.called THEN 1 ELSE 0)
                  /\ messages' = HistAppendResult(messages, r,
                                                  SendResultMessage(ChatRouteBody(resp, text)))
        /\ requests' = requests \ {r}
        /\ loading' = FALSE
        /\ MessagesEffects(messages', currentSessionId, currentTitle, hasGeneratedTitle, saves)
        /\ last' = "ChatArrive"
        /\ UNCHANGED <<user, input, currentSessionId, currentTitle, sessionStore, nextId,
                       history, loads, handler, nsent, alerts, deletedSessions, chatOnly,
                       careerOnly, profileOnly, draftOnly>>

\* the rest of handle2MinConcept / handleWeaknessAnalysis
HistOtherResponse ==
    \E r \in requests :
        /\ r.kind # "send"
        /\ \/ \E text \in ResponseTexts : HistArrive(r, ReplyMessage(r, text))
           \/ HistArrive(r, ErrorMessage)

HistChatNext ==
    \/ UserLoaded
    \/ \E text \in InputTexts : TypeInput(text)
    \/ HistSend
    \/ Hist2MinConceptNoTopic
    \/ Hist2MinConcept
    \/ HistWeaknessAnalysis
    \/ HistChatResponse
    \/ HistOtherResponse
    \/ handleNewChat
    \/ handleResetChat
    \/ SaveThenRotateResume
    \/ handleDeleteAllChats
    \/ DeleteAllChatsResume
    \/ SaveComplete
    \/ TitleGenerated
    \/ LoadQuery
    \/ LoadResolve
    \/ LoadFail

SpecHistChat == HistInit /\ [][HistChatNext]_vars

\* C38: when /api/chat has completed with success (status 200, the streamed text
\* as body), handleSend appends exactly one message, the assistant message parsed
\* from the reply text, and not the error notice.
C38_SuccessAppendsParsedReply ==
    [][(last' = "ChatArrive" /\ apiResponse'.status = 200)
            => /\ Len(messages') = Len(messages) + 1
               /\ messages'[Len(messages')] = ParsedMessage(apiResponse'.text)
               /\ messages'[Len(messages')] # ErrorMessage]_vars

\* the handlers that rotate the session id
RotatingLabels == {"NewChat", "ResetChat", "DeleteAllChats", "DeleteAllChatsFailed"}

C33_ClearInputKeepsTranscript ==
    [][   /\ last' = "ResetInput" =>
                /\ messages' = messages
                /\ snapshot'.input = input
          /\ (last = "ResetInput" /\ last' = "undo") =>
                /\ messages' = messages
                /\ input' = snapshot.input]_vars

\* C32: on the career page a reset from the Reset menu keeps for undo the field
\* values the form displayed right before it, and Undo within the window puts
\* exactly those values back into the form.
C32_UndoRestoresDisplayedForm ==
    [][   /\ last' \in {"Reset", "ResetWhileOpen"} => snapshot'.value = formData
          /\ last' = "undo" => formData' = snapshot.value]_vars

\* --------------------------------------------- CareerPage: the mount effect
\* a draft of the career form an earlier visit left in the store
CareerDraft ==
    [present |-> TRUE,
     value |-> [currentEducation |-> "10th", interests |-> "art", strengths |-> "",
                goals |-> ""]]

\* a mount that never applies the draft
CareerMountFormNoRestore(form, d) == form

\* the synchronous part of the mount effect: the draft is put into the form if
\* there is one and the form of the mounting render has neither an education
\* level nor interests
CareerMountForm(form, d) ==
    LET saved == restoreDraft(d)
    IN  IF saved.present /\ form.currentEducation = "" /\ form.interests = ""
          THEN saved.value
          ELSE form

\* CareerPage after its mount effect has run and before getUser() has resolved;
\* the store may hold a draft, and a goal of an earlier visit
CareerMountInit ==
    /\ user = FALSE
    /\ loading = FALSE
    /\ requests = {}
    /\ memLoads = {}
    /\ memory \in {<<>>, <<CareerGoalRow(PriorGoal)>>}
    /\ resetState = EmptyForm
    /\ snapshot = NoCareerSnapshot
    /\ priorState = EmptyForm
    /\ showUndo = FALSE
    /\ gestures = 0
    /\ ApiAtStart
    /\ ProfileAtMount
    /\ draftPage = "career" /\ draftValue = <<>> /\ draftTimer = NoTimer /\ draftWrites = 0
    /\ draft \in {NoDraft, CareerDraft}
    /\ formData = CareerMountForm(EmptyForm, draft)
    /\ roadmap = "" /\ error = "" /\ showResetMenu = FALSE
    /\ now = 0 /\ undoDeadline = 0
    /\ last = "mount"
    /\ messages = <<>> /\ input = <<>> /\ sessionStore = 0 /\ nextId = 1 /\ nsent = 0
    /\ heap = <<>> /\ streams = {} /\ timers = {} /\ conversations = <<>>
    /\ sessionIdRef = 0 /\ crashed = FALSE
    /\ currentSessionId = 0 /\ currentTitle = NewChatTitle /\ hasGeneratedTitle = FALSE
    /\ history = [sid \in SessionIds |-> Absent]
    /\ saves = {} /\ titleJobs = {} /\ loads = {} /\ handler = Idle
    /\ titleCalls = 0 /\ alerts = 0 /\ deletedSessions = {}

\* the mount, the goal query, typing and submitting; the reset menu is left out
CareerMountNext ==
    \/ CareerUserLoaded
    \/ GoalResolve
    \/ EditField
    \/ handleSubmit
    \/ CareerResponse

SpecCareerMount == CareerMountInit /\ [][CareerMountNext]_vars

C36_DraftKept ==
    /\ last = "GoalResolve" /\ gestures = 0
    /\ draft.present /\ memory = <<>>
    /\ formData = draft.value

\* C35: once a successful submission has cleared the draft, the next step does
\* not bring a draft record back unless it changes the value (every change of
\* the value is a gesture): a debounced write still pending at the clear does
\* not recreate the draft.
C35_PendingWriteNeverRecreates ==
    [][(last = "DraftSubmitDone" /\ gestures' = gestures) => ~draft'.present]_vars

\* C37: when the auto-send timer of a greeting or command transcript fires with
\* the transcript still in the input and no request outstanding, exactly one
\* send is dispatched and its user message is the transcribed text; handling a
\* transcript sends nothing by itself, and a study or stress transcript sets no
\* timer.
C37_GreetingIsAutoSent ==
    [][   /\ (/\ last = "VoiceTranscript" /\ last' = "AutoSend"
              /\ analyzeIntent(input) \in {"greeting", "command"}
              /\ ~loading)
                => /\ nsent' = nsent + 1
                   /\ heap' = Append(heap, UserMessage(input))
                   /\ messages' = Append(messages, Len(heap) + 1)
          /\ last' = "VoiceTranscript"
                => /\ nsent' = nsent /\ messages' = messages
                   /\ input' \in VoiceTexts
                   /\ analyzeIntent(input') \in {"study", "stress"} => timers' = timers]_vars

====
